---- MODULE Spec2Model ----
(***************************************************************************)
(* Model of the pdb remote control protocol: the server's accept loop,     *)
(* its per-connection session (handle_connection / handle_command), the    *)
(* shared device registry, and the client's request/response exchange      *)
(* (Client::send_command, RemoteDevice::send_command).                     *)
(*                                                                         *)
(* A TCP stream is a sequence of items: one item for the header buffer     *)
(* (its bytes, 8 when complete) and one item per payload byte.  The JSON   *)
(* payload is abstracted to a sequence of tokens (variant name, then the   *)
(* fields).  The field "ghost" of a header item is a history tag naming    *)
(* the frame (its writer, its index and, from a raw peer, its payload); a  *)
(* response header carries the tag of the command it answers.  No action   *)
(* of the program reads it.                                                *)
(***************************************************************************)
EXTENDS Integers, Sequences, FiniteSets, TLC

\* ---- bounds ----
MaxPeerFrames == 2
MaxContendFrames == 3
MaxCalls == 3

\* ---- program constants ----
PROTOCOL_VERSION == 1

Conns == {"c1", "c2"}
Tasks == {"t1", "t2", "t3"}
Hwnds == {1, 2}
ClientConn == "c1"
PeerConn == "c2"

NoHolder == "none"
NoGhost == <<>>

TitleA == <<"n", "p">>
TitleB == <<"n">>
QueryTitles == {<<"n">>, <<"z">>}

\* ---- strings as sequences: str::contains ----
Contains(hay, needle) ==
    \E i \in 1..(Len(hay) + 1) :
        /\ i + Len(needle) - 1 <= Len(hay)
        /\ \A j \in 1..Len(needle) : hay[i + j - 1] = needle[j]

\* ---- serde_json: the text of a value, as a sequence of characters ----
DigitChars == <<"0", "1", "2", "3", "4", "5", "6", "7", "8", "9">>
CharDigit(ch) == (CHOOSE i \in 1..10 : DigitChars[i] = ch) - 1

RECURSIVE FormatNat(_)
FormatNat(n) ==
    IF n < 10 THEN <<DigitChars[n + 1]>>
    ELSE Append(FormatNat(n \div 10), DigitChars[(n % 10) + 1])

\* an integer field: a minus sign for a negative value, then the digits
FormatInt_Abs(n) == IF n < 0 THEN FormatNat(0 - n) ELSE FormatNat(n)
FormatInt(n) == IF n < 0 THEN <<"-">> \o FormatNat(0 - n) ELSE FormatNat(n)

RECURSIVE ParseNat(_)
ParseNat(cs) ==
    IF Len(cs) = 1 THEN CharDigit(cs[1])
    ELSE 10 * ParseNat(SubSeq(cs, 1, Len(cs) - 1)) + CharDigit(cs[Len(cs)])

IsNatText(cs) ==
    /\ Len(cs) \in 1..10
    /\ \A i \in 1..Len(cs) : \E d \in 1..10 : DigitChars[d] = cs[i]
    /\ Len(cs) > 1 => cs[1] # "0"
IsIntText(cs) ==
    /\ Len(cs) >= 1
    /\ IF cs[1] = "-" THEN IsNatText(Tail(cs)) ELSE IsNatText(cs)
ParseInt(cs) == IF cs[1] = "-" THEN 0 - ParseNat(Tail(cs)) ELSE ParseNat(cs)

\* a string field: quoted, with the quote and the backslash escaped
RECURSIVE Escape(_)
Escape(str) ==
    IF str = <<>> THEN <<>>
    ELSE (IF Head(str) \in {"\"", "\\"} THEN <<"\\", Head(str)>> ELSE <<Head(str)>>)
         \o Escape(Tail(str))
RECURSIVE Unescape(_)
Unescape(cs) ==
    IF cs = <<>> THEN <<>>
    ELSE IF Head(cs) = "\\" THEN <<cs[2]>> \o Unescape(SubSeq(cs, 3, Len(cs)))
    ELSE <<Head(cs)>> \o Unescape(Tail(cs))
FormatStr(str) == <<"\"">> \o Escape(str) \o <<"\"">>
ParseStr(cs) == Unescape(SubSeq(cs, 2, Len(cs) - 1))

FormatBool(b) == IF b THEN <<"true">> ELSE <<"false">>
ParseBool(cs) == cs = <<"true">>

FormatSeq(vs) == [i \in 1..Len(vs) |-> FormatInt(vs[i])]
ParseSeq(ts) == [i \in 1..Len(ts) |-> ParseInt(ts[i])]

\* ---- commands (protocol.rs Command) ----
UnitKinds == {"ListWindows", "Ping", "Disconnect"}
HwndKinds == {"Click", "Swipe", "Screenshot", "InputText", "KeyEvent", "GetSize", "Focus"}
CommandKinds == UnitKinds \cup HwndKinds \cup {"Connect", "ConnectByHwnd"}

MkCmd(k, h, t, a) == [kind |-> k, hwnd |-> h, title |-> t, args |-> a]

\* the fields of a command after hwnd: integers, a text, a KeyCode
KeyCodes == {"Enter", "A"}
FieldTypes(k) ==
    CASE k = "Click" -> <<"int", "int">>
      [] k = "Swipe" -> <<"int", "int", "int", "int", "int">>
      [] k = "InputText" -> <<"str">>
      [] k = "KeyEvent" -> <<"key">>
      [] OTHER -> <<>>

CmdArgs(k) ==
    CASE k = "Click" -> <<10, 20>>
      [] k = "Swipe" -> <<0, 0, 5, 5, 100>>
      [] k = "InputText" -> << <<"h", "i">> >>
      [] k = "KeyEvent" -> <<"Enter">>
      [] OTHER -> <<>>

EncodeField(ty, v) ==
    CASE ty = "int" -> FormatInt(v)
      [] ty = "str" -> FormatStr(v)
      [] OTHER -> FormatStr(<<v>>)
FieldDecodes(ty, tk) ==
    CASE ty = "int" -> IsIntText(tk)
      [] ty = "str" -> TRUE
      [] OTHER -> ParseStr(tk)[1] \in KeyCodes
DecodeField(ty, tk) ==
    CASE ty = "int" -> ParseInt(tk)
      [] ty = "str" -> ParseStr(tk)
      [] OTHER -> ParseStr(tk)[1]

AllCommands ==
    {MkCmd(k, 0, <<>>, <<>>) : k \in UnitKinds}
    \cup {MkCmd("Connect", 0, t, <<>>) : t \in QueryTitles}
    \cup {MkCmd("ConnectByHwnd", h, <<>>, <<>>) : h \in Hwnds}
    \cup {MkCmd(k, h, <<>>, CmdArgs(k)) : k \in HwndKinds, h \in Hwnds}

\* serde_json::to_vec(&command): the variant name followed by its fields
EncodeCommand(c) ==
    CASE c.kind \in UnitKinds -> <<c.kind>>
      [] c.kind = "Connect" -> <<c.kind, FormatStr(c.title)>>
      [] OTHER -> <<c.kind, FormatInt(c.hwnd)>>
                  \o [i \in 1..Len(c.args) |-> EncodeField(FieldTypes(c.kind)[i], c.args[i])]

CmdArity(k) ==
    CASE k \in UnitKinds -> 1
      [] k = "Click" -> 4
      [] k = "Swipe" -> 7
      [] k \in {"InputText", "KeyEvent"} -> 3
      [] OTHER -> 2

\* serde_json::from_slice::<Command>: succeeds on a known variant with all
\* of its fields, fails otherwise
CommandDecodes(p) ==
    /\ Len(p) >= 1
    /\ p[1] \in CommandKinds
    /\ Len(p) = CmdArity(p[1])
    /\ p[1] \in HwndKinds \cup {"ConnectByHwnd"}
       => /\ IsNatText(p[2])
          /\ \A i \in 1..Len(FieldTypes(p[1])) : FieldDecodes(FieldTypes(p[1])[i], p[2 + i])

DecodeCommand(p) ==
    CASE p[1] \in UnitKinds -> MkCmd(p[1], 0, <<>>, <<>>)
      [] p[1] = "Connect" -> MkCmd(p[1], 0, ParseStr(p[2]), <<>>)
      [] OTHER -> MkCmd(p[1], ParseInt(p[2]), <<>>,
                        [i \in 1..Len(FieldTypes(p[1])) |->
                            DecodeField(FieldTypes(p[1])[i], p[2 + i])])

GarbagePayload == <<"?">>

\* ---- responses (protocol.rs Response) ----
MkResp(k, v) == [kind |-> k, val |-> v]
RespOk == MkResp("Ok", <<>>)
RespPong == MkResp("Pong", <<>>)
RespError(m) == MkResp("Error", m)

\* an error message is a sequence of text pieces
NotConnectedMsg == <<"Device not connected">>

\* PdbError Display (error.rs), e.to_string()
WindowNotFoundMsg(t) == <<"Window not found: ">> \o t
InputErrorMsg == <<"Input simulation failed: ", "SendInput failed">>
CaptureErrorMsg == <<"Screenshot capture failed: ", "capture failed">>

\* a WindowInfo as one value: hwnd, title, class_name, rect, visible
EncodeInfo(info) ==
    <<FormatInt(info.hwnd), FormatStr(info.title), FormatStr(info.class_name),
      FormatSeq(info.rect), FormatBool(info.visible)>>
DecodeInfo(tk) ==
    [hwnd |-> ParseInt(tk[1]), title |-> ParseStr(tk[2]), class_name |-> ParseStr(tk[3]),
     rect |-> ParseSeq(tk[4]), visible |-> ParseBool(tk[5])]

\* serde_json::to_vec(&response)
EncodeResponse(r) ==
    CASE r.kind \in {"Ok", "Pong"} -> <<r.kind>>
      [] r.kind = "Error" -> <<r.kind, FormatStr(r.val)>>
      [] r.kind = "Window" -> <<r.kind, EncodeInfo(r.val)>>
      [] r.kind = "Windows" -> <<r.kind, [i \in 1..Len(r.val) |-> EncodeInfo(r.val[i])]>>
      [] r.kind = "Size" -> <<r.kind, FormatInt(r.val.width), FormatInt(r.val.height)>>
      [] OTHER -> <<r.kind, FormatInt(r.val.width), FormatInt(r.val.height),
                    FormatSeq(r.val.data)>>

RespArity(k) ==
    CASE k \in {"Ok", "Pong"} -> 1
      [] k = "Size" -> 3
      [] k = "Screenshot" -> 4
      [] OTHER -> 2

ResponseDecodes(p) ==
    /\ Len(p) >= 1
    /\ p[1] \in {"Ok", "Pong", "Windows", "Window", "Screenshot", "Size", "Error"}
    /\ Len(p) = RespArity(p[1])

\* serde_json::from_slice::<Response>
DecodeResponse(p) ==
    CASE p[1] \in {"Ok", "Pong"} -> MkResp(p[1], <<>>)
      [] p[1] = "Error" -> MkResp(p[1], ParseStr(p[2]))
      [] p[1] = "Window" -> MkResp(p[1], DecodeInfo(p[2]))
      [] p[1] = "Windows" -> MkResp(p[1], [i \in 1..Len(p[2]) |-> DecodeInfo(p[2][i])])
      [] p[1] = "Size" -> MkResp(p[1], [width |-> ParseInt(p[2]), height |-> ParseInt(p[3])])
      [] OTHER -> MkResp(p[1], [width |-> ParseInt(p[2]), height |-> ParseInt(p[3]),
                                data |-> ParseSeq(p[4])])

\* ---- frames ----
\* u32::to_le_bytes and u32::from_le_bytes
to_be_bytes(n) ==
    <<(n \div 16777216) % 256, (n \div 65536) % 256, (n \div 256) % 256, n % 256>>
to_le_bytes(n) ==
    <<n % 256, (n \div 256) % 256, (n \div 65536) % 256, (n \div 16777216) % 256>>
from_le_bytes(b) == b[1] + 256 * b[2] + 65536 * b[3] + 16777216 * b[4]

\* a usize is four 16-bit limbs, least significant first, and a u32 two
\* `len as u32`: the low 32 bits
as_u32_Saturate(n) == IF n[3] = 0 /\ n[4] = 0 THEN <<n[1], n[2]>> ELSE <<65535, 65535>>
as_u32(n) == <<n[1], n[2]>>

\* to_le_bytes of limbs: two bytes for each limb
LimbBytes(w) ==
    [i \in 1..(2 * Len(w)) |->
        IF i % 2 = 1 THEN w[(i + 1) \div 2] % 256 ELSE w[i \div 2] \div 256]

\* the header buffer send_command and handle_connection fill for a payload
\* of len bytes: MessageHeader::new(len as u32), version then length
HeaderBufFor(len) == to_le_bytes(PROTOCOL_VERSION) \o LimbBytes(as_u32(len))

\* MessageHeader::new(length)
MessageHeader(len, g) ==
    [version |-> PROTOCOL_VERSION, length |-> len, ghost |-> g]

\* the header buffer as written: version then length, little-endian
HeaderBuf(h) ==
    [bytes |-> to_le_bytes(h.version) \o to_le_bytes(h.length), ghost |-> h.ghost]

\* the header a receiver builds from the 8 bytes it has read
ParseHeader(buf) ==
    [version |-> from_le_bytes(SubSeq(buf.bytes, 1, 4)),
     length |-> from_le_bytes(SubSeq(buf.bytes, 5, 8)),
     ghost |-> buf.ghost]

\* the largest length of the u32 field that a 32-bit signed integer holds
HugeLength == 2147483647

\* read_exact of the header has all of its 8 bytes
HeaderComplete(buf) == Len(buf.bytes) = 8

\* ---- the windows of the host (Win32 state read by WindowController) ----
DefaultRect == <<0, 0, 0, 0>>
WindowRect == <<0, 0, 800, 600>>

Window1 == [hwnd |-> 1, title |-> TitleA, visible |-> TRUE]

WindowExists(ws, h) == \E i \in 1..Len(ws) : ws[i].hwnd = h
WindowIndex(ws, h) == CHOOSE i \in 1..Len(ws) : ws[i].hwnd = h

\* controller.rs get_window_info: every Win32 call's failure is ignored, so
\* a handle that names no window yields Ok with empty title and class,
\* the default rectangle and visible = false
get_window_info(ws, h) ==
    IF WindowExists(ws, h)
    THEN [hwnd |-> h, title |-> ws[WindowIndex(ws, h)].title,
          class_name |-> <<"c">>, rect |-> WindowRect,
          visible |-> ws[WindowIndex(ws, h)].visible]
    ELSE [hwnd |-> h, title |-> <<>>, class_name |-> <<>>,
          rect |-> DefaultRect, visible |-> FALSE]

get_window_by_hwnd(ws, h) == get_window_info(ws, h)

\* controller.rs list_windows / enum_windows_callback: visible windows with
\* a non-empty title, in enumeration order
RECURSIVE list_windows(_)
list_windows(ws) ==
    IF ws = <<>> THEN <<>>
    ELSE LET info == get_window_info(ws, ws[1].hwnd)
             rest == list_windows(Tail(ws))
         IN IF info.visible /\ info.title # <<>> THEN <<info>> \o rest ELSE rest

\* a search that keeps the last window whose title contains the query
FindIndex_Last(lst, title) ==
    IF \E i \in 1..Len(lst) : Contains(lst[i].title, title)
    THEN CHOOSE i \in 1..Len(lst) :
            /\ Contains(lst[i].title, title)
            /\ \A j \in (i + 1)..Len(lst) : ~Contains(lst[j].title, title)
    ELSE 0

\* controller.rs find_window: index of the first listed window whose title
\* contains the query, 0 when there is none
FindIndex(lst, title) ==
    IF \E i \in 1..Len(lst) : Contains(lst[i].title, title)
    THEN CHOOSE i \in 1..Len(lst) :
            /\ Contains(lst[i].title, title)
            /\ \A j \in 1..(i - 1) : ~Contains(lst[j].title, title)
    ELSE 0

\* ---- the registry: HashMap<usize, Device> as a set of entries ----
\* Device::new(info)
NewDevice(info) == [hwnd |-> info.hwnd, info |-> info]

HashMapKeys(m) == {e.key : e \in m}
HashMapGet(m, k) == CHOOSE e \in m : e.key = k
\* devices.get(&hwnd) is Some
HashMapGet_AlwaysSome(m, k) == TRUE
HashMapContains(m, k) == k \in HashMapKeys(m)

\* devices.insert(k, v): the entry of k is replaced
HashMapInsert_Clear(m, k, v) == {[key |-> k, dev |-> v]}
HashMapInsert_Drop(m, k, v) == m
HashMapInsert_Push(m, k, v) == m \cup {[key |-> k, dev |-> v]}
HashMapInsert(m, k, v) == {e \in m : e.key # k} \cup {[key |-> k, dev |-> v]}

\* device.rs: which Device methods have an Err path
DeviceFallible(k) == k \in {"Click", "Screenshot", "KeyEvent"}

DeviceOk_AlwaysOk(k) == RespOk
DeviceOk(k) ==
    CASE k = "Screenshot" ->
            MkResp("Screenshot", [width |-> 1, height |-> 1, data |-> <<255, 0, 0, 255>>])
      [] k = "GetSize" -> MkResp("Size", [width |-> 800, height |-> 600])
      [] OTHER -> RespOk

DeviceErr(k) ==
    IF k = "Screenshot" THEN RespError(CaptureErrorMsg) ELSE RespError(InputErrorMsg)

\* ---- state ----
VARIABLES
    windows,     \* the host's windows in enumeration order
    devices,     \* Server.devices: the registry entries
    devLock,     \* holder of the registry Mutex, NoHolder when free
    cst,         \* per connection, the peer's end: "idle", "raw" (a raw peer
                 \* that reads what it is sent at once), "hold" (a raw peer
                 \* that leaves it unread), "open" (a Client), "closed",
                 \* "refused" (the connection was lost in accept)
    netUp,       \* per connection, FALSE once the transport has failed
    c2s,         \* per connection, bytes in flight from peer to server
    s2c,         \* per connection, bytes in flight from server to peer
    peerSent,    \* per connection, frames written by a raw peer
    spc,         \* per session, its position in handle_connection
    shdr,        \* per session, the header just read
    scmd,        \* per session, the command being handled
    sinfo,       \* per session, the WindowInfo found by a connect
    sresp,       \* per session, the response of handle_command
    sres,        \* per session, the result of handle_connection
    nDecoded,    \* history: per session, commands decoded
    nWritten,    \* history: per session, response frames completely written
    devCalls,    \* history: number of Device methods invoked
    connectedOk, \* history: handles whose connect produced Response::Window
    answered,    \* history: handles whose Response::Window was written out
    streamLock,  \* holder of the Client's stream Mutex, NoHolder when free
    waiters,     \* tasks waiting in stream.lock().await, in arrival order
    tpc,         \* per task, its position in send_command
    tcmd,        \* per task, the command of its call
    thdr,        \* per task, the response header it has read
    tres,        \* per task, the result of its last call
    tghost,      \* history: per task, the tag of its call
    calls,       \* number of calls started
    rdevs,       \* the WindowInfo of every RemoteDevice created
    wrOrder,     \* history: tags of the command frames in the order written
    rdOrder,     \* history: tags of the response frames in the order read
    cli,         \* the pdb-client process: its command, its position in
                 \* run_remote_command and how it ended
    iconic,      \* per window handle, whether the window is minimized (IsIconic)
    dcall,       \* per thread of a library user, the Device method it runs:
                 \* the method, its window, its position, the local
                 \* was_minimized and the result of the input step; history:
                 \* found, the minimized state at the call, and alone, whether
                 \* nothing else has acted on the window since the call
    calc         \* the call of an arithmetic function of the library: the
                 \* function, its arguments, its position and its value

libVars == <<iconic, dcall, calc>>
envVars == <<windows, libVars>>
regVars == <<devices, devLock>>
netVars == <<cst, netUp, c2s, s2c, peerSent>>
sessVars == <<spc, shdr, scmd, sinfo, sresp, sres>>
histVars == <<nDecoded, nWritten, devCalls, connectedOk, answered>>
cliVars == <<streamLock, waiters, tpc, tcmd, thdr, tres, tghost, calls, rdevs,
             wrOrder, rdOrder, cli>>
vars == <<envVars, regVars, netVars, sessVars, histVars, cliVars>>

NoCmd == MkCmd("None", 0, <<>>, <<>>)
NoResp == MkResp("None", <<>>)
NoHeader == MessageHeader(0, NoGhost)
NoInfo == get_window_info(<<>>, 0)
NoResult == [ok |-> FALSE, err |-> "none", resp |-> NoResp]
NoCli == [cmd |-> "none", pc |-> "idle", out |-> "none"]
NoCall == [op |-> "none", hwnd |-> 0, pc |-> "idle", was_minimized |-> FALSE,
           result |-> "none", found |-> FALSE, alone |-> TRUE]
NoCalc == [fn |-> "none", arg |-> <<>>, pc |-> "idle", out |-> <<>>]
Threads == {"u1", "u2"}

Init ==
    /\ windows = <<Window1>>
    /\ devices = {}
    /\ devLock = NoHolder
    /\ cst = [c \in Conns |-> "idle"]
    /\ netUp = [c \in Conns |-> TRUE]
    /\ c2s = [c \in Conns |-> <<>>]
    /\ s2c = [c \in Conns |-> <<>>]
    /\ peerSent = [c \in Conns |-> 0]
    /\ spc = [c \in Conns |-> "NoSession"]
    /\ shdr = [c \in Conns |-> NoHeader]
    /\ scmd = [c \in Conns |-> NoCmd]
    /\ sinfo = [c \in Conns |-> NoInfo]
    /\ sresp = [c \in Conns |-> NoResp]
    /\ sres = [c \in Conns |-> "none"]
    /\ nDecoded = [c \in Conns |-> 0]
    /\ nWritten = [c \in Conns |-> 0]
    /\ devCalls = 0
    /\ connectedOk = {}
    /\ answered = {}
    /\ streamLock = NoHolder
    /\ waiters = <<>>
    /\ tpc = [t \in Tasks |-> "idle"]
    /\ tcmd = [t \in Tasks |-> NoCmd]
    /\ thdr = [t \in Tasks |-> NoHeader]
    /\ tres = [t \in Tasks |-> NoResult]
    /\ tghost = [t \in Tasks |-> NoGhost]
    /\ calls = 0
    /\ rdevs = {}
    /\ wrOrder = <<>>
    /\ rdOrder = <<>>
    /\ cli = NoCli
    /\ iconic = [h \in Hwnds |-> FALSE]
    /\ dcall = [u \in Threads |-> NoCall]
    /\ calc = NoCalc

\* ---- the host ----
\* a window changes its title, from TitleA to TitleB
EnvRetitle(h) ==
    /\ WindowExists(windows, h)
    /\ windows[WindowIndex(windows, h)].title = TitleA
    /\ windows' = [windows EXCEPT ![WindowIndex(windows, h)].title = TitleB]
    /\ UNCHANGED <<libVars, regVars, netVars, sessVars, histVars>>
    /\ UNCHANGED cliVars

\* a window is created
EnvOpen(h) ==
    /\ ~WindowExists(windows, h)
    /\ windows' = Append(windows, [hwnd |-> h, title |-> TitleB, visible |-> TRUE])
    /\ UNCHANGED <<libVars, regVars, netVars, sessVars, histVars>>
    /\ UNCHANGED cliVars

\* a window is hidden
EnvHide(h) ==
    /\ WindowExists(windows, h)
    /\ windows[WindowIndex(windows, h)].visible
    /\ windows' = [windows EXCEPT ![WindowIndex(windows, h)].visible = FALSE]
    /\ UNCHANGED <<libVars, regVars, netVars, sessVars, histVars>>
    /\ UNCHANGED cliVars

\* ---- a raw peer ----
PeerConnect(c) ==
    /\ cst[c] = "idle"
    /\ cst' = [cst EXCEPT ![c] = "raw"]
    /\ UNCHANGED <<envVars, regVars, netUp, c2s, s2c, peerSent, sessVars, histVars>>
    /\ UNCHANGED cliVars

\* a raw peer that leaves the responses unread in its receive buffer
PeerConnectHold(c) ==
    /\ cst[c] = "idle"
    /\ cst' = [cst EXCEPT ![c] = "hold"]
    /\ UNCHANGED <<envVars, regVars, netUp, c2s, s2c, peerSent, sessVars, histVars>>
    /\ UNCHANGED cliVars

RawPeer(c) == cst[c] \in {"raw", "hold"}

\* frames written by the raw peers of the connections in S
RECURSIVE TotalSent(_)
TotalSent(S) ==
    IF S = {} THEN 0
    ELSE LET c == CHOOSE x \in S : TRUE IN peerSent[c] + TotalSent(S \ {c})

\* every frame the peer has written on c has been answered
PeerIdle(c) == c2s[c] = <<>> /\ spc[c] \in {"NoSession", "AwaitHeader", "Closed"}

\* the peer writes one frame carrying payload p, of at most max frames; a
\* peer that does not pipeline waits for the response to its last frame
PeerSend(c, p, max, pipeline) ==
    /\ RawPeer(c)
    /\ netUp[c]
    /\ TotalSent(Conns) < max
    /\ pipeline \/ PeerIdle(c)
    /\ c2s' = [c2s EXCEPT ![c] =
            IF spc[c] = "Closed" THEN @
            ELSE @ \o <<HeaderBuf(MessageHeader(Len(p), <<c, peerSent[c] + 1, p>>))>> \o p]
    /\ peerSent' = [peerSent EXCEPT ![c] = @ + 1]
    /\ UNCHANGED <<envVars, regVars, cst, netUp, s2c, sessVars, histVars>>
    /\ UNCHANGED cliVars

\* the peer writes one frame carrying payload p whose header has the version
\* v, once its last frame is answered
PeerSendVersion(c, p, v, max) ==
    /\ RawPeer(c)
    /\ netUp[c]
    /\ TotalSent(Conns) < max
    /\ PeerIdle(c)
    /\ LET h == [MessageHeader(Len(p), <<c, peerSent[c] + 1, p, v>>) EXCEPT !.version = v]
       IN c2s' = [c2s EXCEPT ![c] = IF spc[c] = "Closed" THEN @ ELSE @ \o <<HeaderBuf(h)>> \o p]
    /\ peerSent' = [peerSent EXCEPT ![c] = @ + 1]
    /\ UNCHANGED <<envVars, regVars, cst, netUp, s2c, sessVars, histVars>>
    /\ UNCHANGED cliVars

\* the peer writes the first hb bytes of the header of a frame carrying p
\* and, after a whole header, the first pb bytes of p, then closes
PeerTruncate(c, p, hb, pb, max) ==
    /\ RawPeer(c)
    /\ netUp[c]
    /\ TotalSent(Conns) < max
    /\ PeerIdle(c)
    /\ hb \in 1..8 /\ pb \in 0..Len(p)
    /\ IF hb < 8 THEN pb = 0 ELSE pb < Len(p)
    /\ LET buf == HeaderBuf(MessageHeader(Len(p), <<c, peerSent[c] + 1, SubSeq(p, 1, pb)>>))
       IN c2s' = [c2s EXCEPT ![c] =
               IF spc[c] = "Closed" THEN @
               ELSE @ \o <<[buf EXCEPT !.bytes = SubSeq(@, 1, hb)]>> \o SubSeq(p, 1, pb)]
    /\ peerSent' = [peerSent EXCEPT ![c] = @ + 1]
    /\ cst' = [cst EXCEPT ![c] = "closed"]
    /\ UNCHANGED <<envVars, regVars, netUp, s2c, sessVars, histVars>>
    /\ UNCHANGED cliVars

\* the peer writes a header declaring len payload bytes and no payload
PeerClaim(c, len, max) ==
    /\ RawPeer(c)
    /\ netUp[c]
    /\ TotalSent(Conns) < max
    /\ PeerIdle(c)
    /\ c2s' = [c2s EXCEPT ![c] =
            IF spc[c] = "Closed" THEN @
            ELSE Append(@, HeaderBuf(MessageHeader(len, <<c, peerSent[c] + 1, <<>> >>)))]
    /\ peerSent' = [peerSent EXCEPT ![c] = @ + 1]
    /\ UNCHANGED <<envVars, regVars, cst, netUp, s2c, sessVars, histVars>>
    /\ UNCHANGED cliVars

PeerClose(c) ==
    /\ RawPeer(c)
    /\ cst' = [cst EXCEPT ![c] = "closed"]
    /\ UNCHANGED <<envVars, regVars, netUp, c2s, s2c, peerSent, sessVars, histVars>>
    /\ UNCHANGED cliVars

\* the transport of a connection fails
NetBreak(c) ==
    /\ cst[c] # "idle"
    /\ netUp[c]
    /\ netUp' = [netUp EXCEPT ![c] = FALSE]
    /\ UNCHANGED <<envVars, regVars, cst, c2s, s2c, peerSent, sessVars, histVars>>
    /\ UNCHANGED cliVars

\* ---- server.rs: Server::start ----
\* an accept loop that returns at the first accept error or failed session
Accept_StopsOnError(s) ==
    /\ spc[s] = "NoSession"
    /\ cst[s] \notin {"idle", "refused"}
    /\ \A o \in Conns : cst[o] # "refused" /\ sres[o] # "err"
    /\ spc' = [spc EXCEPT ![s] = "AwaitHeader"]
    /\ UNCHANGED <<envVars, regVars, netVars, shdr, scmd, sinfo, sresp, sres, histVars>>
    /\ UNCHANGED cliVars

\* listener.accept() returns a connection and its session is spawned
Accept(s) ==
    /\ spc[s] = "NoSession"
    /\ cst[s] \notin {"idle", "refused"}
    /\ spc' = [spc EXCEPT ![s] = "AwaitHeader"]
    /\ UNCHANGED <<envVars, regVars, netVars, shdr, scmd, sinfo, sresp, sres, histVars>>
    /\ UNCHANGED cliVars

\* listener.accept() returns Err for a pending connection: the error is
\* logged and the loop goes on
AcceptError(s) ==
    /\ spc[s] = "NoSession"
    /\ cst[s] \notin {"idle", "refused"}
    /\ cst' = [cst EXCEPT ![s] = "refused"]
    /\ c2s' = [c2s EXCEPT ![s] = <<>>]
    /\ UNCHANGED <<envVars, regVars, netUp, s2c, peerSent, sessVars, histVars>>
    /\ UNCHANGED cliVars

\* ---- server.rs: handle_connection ----
\* the session task returns r and its stream is dropped
CloseSession(s, r) ==
    /\ spc' = [spc EXCEPT ![s] = "Closed"]
    /\ sres' = [sres EXCEPT ![s] = r]
    /\ shdr' = [shdr EXCEPT ![s] = NoHeader]
    /\ scmd' = [scmd EXCEPT ![s] = NoCmd]
    /\ sinfo' = [sinfo EXCEPT ![s] = NoInfo]
    /\ sresp' = [sresp EXCEPT ![s] = NoResp]
    /\ c2s' = [c2s EXCEPT ![s] = <<>>]

\* bytes written to a peer: a raw peer reads them at once or leaves them
\* unread, a Client reads them in send_command, a closed peer never reads
\* them
Deliver(s, items) ==
    s2c' = [s2c EXCEPT ![s] = IF cst[s] \in {"open", "hold"} THEN @ \o items ELSE @]

\* stream.read_exact(&mut header_buf): every UnexpectedEof, with no byte or
\* with 1 to 7 bytes of the header read, returns Ok(())
SrvReadHeader_EofIsError(s) ==
    /\ spc[s] = "AwaitHeader"
    /\ \/ /\ netUp[s]
          /\ c2s[s] # <<>>
          /\ HeaderComplete(Head(c2s[s]))
          /\ shdr' = [shdr EXCEPT ![s] = ParseHeader(Head(c2s[s]))]
          /\ c2s' = [c2s EXCEPT ![s] = Tail(@)]
          /\ spc' = [spc EXCEPT ![s] = "AwaitBody"]
          /\ UNCHANGED <<sres, scmd, sinfo, sresp>>
       \/ /\ ~netUp[s] \/ cst[s] = "closed"
          /\ IF c2s[s] = <<>> THEN TRUE ELSE ~HeaderComplete(Head(c2s[s]))
          /\ CloseSession(s, "err")
    /\ UNCHANGED <<envVars, regVars, cst, netUp, s2c, peerSent, histVars>>
    /\ UNCHANGED cliVars

\* a header read that gives up on a peer that sends nothing
SrvReadHeader_Timeout(s) ==
    /\ spc[s] = "AwaitHeader"
    /\ netUp[s]
    /\ c2s[s] = <<>>
    /\ CloseSession(s, "err")
    /\ UNCHANGED <<envVars, regVars, cst, netUp, s2c, peerSent, histVars>>
    /\ UNCHANGED cliVars

\* a session that ends on a header of another protocol version
SrvReadHeader_CheckVersion(s) ==
    /\ spc[s] = "AwaitHeader"
    /\ netUp[s]
    /\ c2s[s] # <<>>
    /\ IF ParseHeader(Head(c2s[s])).version = PROTOCOL_VERSION
       THEN /\ shdr' = [shdr EXCEPT ![s] = ParseHeader(Head(c2s[s]))]
            /\ c2s' = [c2s EXCEPT ![s] = Tail(@)]
            /\ spc' = [spc EXCEPT ![s] = "AwaitBody"]
            /\ UNCHANGED <<sres, scmd, sinfo, sresp>>
       ELSE CloseSession(s, "err")
    /\ UNCHANGED <<envVars, regVars, cst, netUp, s2c, peerSent, histVars>>
    /\ UNCHANGED cliVars

SrvReadHeader(s) ==
    /\ spc[s] = "AwaitHeader"
    /\ \/ /\ netUp[s]
          /\ c2s[s] # <<>>
          /\ HeaderComplete(Head(c2s[s]))
          /\ shdr' = [shdr EXCEPT ![s] = ParseHeader(Head(c2s[s]))]
          /\ c2s' = [c2s EXCEPT ![s] = Tail(@)]
          /\ spc' = [spc EXCEPT ![s] = "AwaitBody"]
          /\ UNCHANGED <<sres, scmd, sinfo, sresp>>
       \/ /\ netUp[s]
          /\ cst[s] = "closed"
          /\ IF c2s[s] = <<>> THEN TRUE ELSE ~HeaderComplete(Head(c2s[s]))
          /\ CloseSession(s, "ok")
       \/ /\ ~netUp[s]
          /\ CloseSession(s, "err")
    /\ UNCHANGED <<envVars, regVars, cst, netUp, s2c, peerSent, histVars>>
    /\ UNCHANGED cliVars

\* stream.read_exact(&mut body_buf) and serde_json::from_slice
SrvReadBody_ErrorReply(s) ==
    /\ spc[s] = "AwaitBody"
    /\ netUp[s]
    /\ Len(c2s[s]) >= shdr[s].length
    /\ LET len == shdr[s].length
           payload == SubSeq(c2s[s], 1, len)
       IN /\ c2s' = [c2s EXCEPT ![s] = SubSeq(@, len + 1, Len(@))]
          /\ IF CommandDecodes(payload)
             THEN /\ scmd' = [scmd EXCEPT ![s] = DecodeCommand(payload)]
                  /\ spc' = [spc EXCEPT ![s] = "Dispatch"]
                  /\ UNCHANGED sresp
             ELSE /\ sresp' = [sresp EXCEPT ![s] = RespError(<<"bad command">>)]
                  /\ spc' = [spc EXCEPT ![s] = "Respond"]
                  /\ UNCHANGED scmd
    /\ nDecoded' = [nDecoded EXCEPT ![s] = @ + 1]
    /\ UNCHANGED <<envVars, regVars, cst, netUp, s2c, peerSent, sres, shdr, sinfo,
                   nWritten, devCalls, connectedOk, answered>>
    /\ UNCHANGED cliVars

SrvReadBody(s) ==
    /\ spc[s] = "AwaitBody"
    /\ LET len == shdr[s].length
           payload == SubSeq(c2s[s], 1, len)
       IN \/ /\ netUp[s]
             /\ Len(c2s[s]) >= len
             /\ IF CommandDecodes(payload)
                THEN /\ c2s' = [c2s EXCEPT ![s] = SubSeq(@, len + 1, Len(@))]
                     /\ scmd' = [scmd EXCEPT ![s] = DecodeCommand(payload)]
                     /\ spc' = [spc EXCEPT ![s] = "Dispatch"]
                     /\ nDecoded' = [nDecoded EXCEPT ![s] = @ + 1]
                     /\ UNCHANGED <<sres, shdr, sinfo, sresp>>
                ELSE /\ CloseSession(s, "err")
                     /\ UNCHANGED nDecoded
          \/ /\ \/ ~netUp[s]
                \/ Len(c2s[s]) < len /\ cst[s] = "closed"
             /\ CloseSession(s, "err")
             /\ UNCHANGED nDecoded
    /\ UNCHANGED <<envVars, regVars, cst, netUp, s2c, peerSent,
                   nWritten, devCalls, connectedOk, answered>>
    /\ UNCHANGED cliVars

\* ---- server.rs: handle_command ----
DispatchSimple_NoResponse(s) ==
    /\ spc[s] = "Dispatch"
    /\ scmd[s].kind \in UnitKinds
    /\ spc' = [spc EXCEPT ![s] = "AwaitHeader"]
    /\ shdr' = [shdr EXCEPT ![s] = NoHeader]
    /\ scmd' = [scmd EXCEPT ![s] = NoCmd]
    /\ UNCHANGED <<envVars, regVars, netVars, sinfo, sresp, sres, histVars>>
    /\ UNCHANGED cliVars

DispatchSimple_DisconnectCloses(s) ==
    /\ spc[s] = "Dispatch"
    /\ scmd[s].kind \in UnitKinds
    /\ IF scmd[s].kind = "Disconnect"
       THEN CloseSession(s, "ok")
       ELSE /\ sresp' = [sresp EXCEPT ![s] =
                    IF scmd[s].kind = "Ping" THEN RespPong
                    ELSE MkResp("Windows", list_windows(windows))]
            /\ spc' = [spc EXCEPT ![s] = "Respond"]
            /\ UNCHANGED <<shdr, scmd, sinfo, sres, c2s>>
    /\ UNCHANGED <<envVars, regVars, cst, netUp, s2c, peerSent, histVars>>
    /\ UNCHANGED cliVars

\* Ping, Disconnect, ListWindows: no registry access
DispatchSimple(s) ==
    /\ spc[s] = "Dispatch"
    /\ scmd[s].kind \in UnitKinds
    /\ sresp' = [sresp EXCEPT ![s] =
            CASE scmd[s].kind = "Ping" -> RespPong
              [] scmd[s].kind = "Disconnect" -> RespOk
              [] OTHER -> MkResp("Windows", list_windows(windows))]
    /\ spc' = [spc EXCEPT ![s] = "Respond"]
    /\ UNCHANGED <<envVars, regVars, netVars, shdr, scmd, sinfo, sres, histVars>>
    /\ UNCHANGED cliVars

\* Connect / ConnectByHwnd up to the match on the controller's result
DispatchFind(s) ==
    /\ spc[s] = "Dispatch"
    /\ scmd[s].kind \in {"Connect", "ConnectByHwnd"}
    /\ LET lst == list_windows(windows)
           i == FindIndex(lst, scmd[s].title)
       IN IF scmd[s].kind = "Connect" /\ i = 0
          THEN /\ sresp' = [sresp EXCEPT ![s] =
                      RespError(WindowNotFoundMsg(scmd[s].title))]
               /\ spc' = [spc EXCEPT ![s] = "Respond"]
               /\ UNCHANGED sinfo
          ELSE /\ sinfo' = [sinfo EXCEPT ![s] =
                      IF scmd[s].kind = "Connect" THEN lst[i]
                      ELSE get_window_by_hwnd(windows, scmd[s].hwnd)]
               /\ spc' = [spc EXCEPT ![s] = "Register"]
               /\ UNCHANGED sresp
    /\ UNCHANGED <<envVars, regVars, netVars, shdr, scmd, sres, histVars>>
    /\ UNCHANGED cliVars

\* a registration whose guard lives until the session is closed
DispatchRegister_HoldGuard(s) ==
    /\ spc[s] = "Register"
    /\ devLock = NoHolder
    /\ devLock' = s
    /\ devices' = HashMapInsert(devices, sinfo[s].hwnd, NewDevice(sinfo[s]))
    /\ sresp' = [sresp EXCEPT ![s] = MkResp("Window", sinfo[s])]
    /\ sinfo' = [sinfo EXCEPT ![s] = NoInfo]
    /\ spc' = [spc EXCEPT ![s] = "Respond"]
    /\ connectedOk' = connectedOk \cup {sinfo[s].hwnd}
    /\ UNCHANGED <<envVars, netVars, shdr, scmd, sres,
                   nDecoded, nWritten, devCalls, answered>>
    /\ UNCHANGED cliVars

\* devices.lock().await.insert(info.hwnd, device); Response::Window(info)
DispatchRegister(s) ==
    /\ spc[s] = "Register"
    /\ devLock = NoHolder
    /\ devices' = HashMapInsert(devices, sinfo[s].hwnd, NewDevice(sinfo[s]))
    /\ sresp' = [sresp EXCEPT ![s] = MkResp("Window", sinfo[s])]
    /\ sinfo' = [sinfo EXCEPT ![s] = NoInfo]
    /\ spc' = [spc EXCEPT ![s] = "Respond"]
    /\ connectedOk' = connectedOk \cup {sinfo[s].hwnd}
    /\ UNCHANGED <<envVars, devLock, netVars, shdr, scmd, sres,
                   nDecoded, nWritten, devCalls, answered>>
    /\ UNCHANGED cliVars

\* a lookup that drops the guard before the Device method starts
DispatchResolve_DropGuard(s) ==
    /\ spc[s] = "Dispatch"
    /\ scmd[s].kind \in HwndKinds
    /\ devLock = NoHolder
    /\ IF HashMapContains(devices, scmd[s].hwnd)
       THEN /\ spc' = [spc EXCEPT ![s] = "Device"]
            /\ devCalls' = devCalls + 1
            /\ UNCHANGED sresp
       ELSE /\ sresp' = [sresp EXCEPT ![s] = RespError(NotConnectedMsg)]
            /\ spc' = [spc EXCEPT ![s] = "Respond"]
            /\ UNCHANGED devCalls
    /\ UNCHANGED <<envVars, regVars, netVars, shdr, scmd, sinfo, sres,
                   nDecoded, nWritten, connectedOk, answered>>
    /\ UNCHANGED cliVars

\* the per-window commands: devices.lock().await, devices.get(&hwnd); on a
\* hit the Device method starts with the guard alive
DispatchResolve(s) ==
    /\ spc[s] = "Dispatch"
    /\ scmd[s].kind \in HwndKinds
    /\ devLock = NoHolder
    /\ IF HashMapContains(devices, scmd[s].hwnd)
       THEN /\ devLock' = s
            /\ spc' = [spc EXCEPT ![s] = "Device"]
            /\ devCalls' = devCalls + 1
            /\ UNCHANGED sresp
       ELSE /\ sresp' = [sresp EXCEPT ![s] = RespError(NotConnectedMsg)]
            /\ spc' = [spc EXCEPT ![s] = "Respond"]
            /\ UNCHANGED <<devLock, devCalls>>
    /\ UNCHANGED <<envVars, devices, netVars, shdr, scmd, sinfo, sres,
                   nDecoded, nWritten, connectedOk, answered>>
    /\ UNCHANGED cliVars

\* the Device method returns; the guard is dropped at the end of the arm
DeviceReturn_Raise(s) ==
    /\ spc[s] = "Device"
    /\ \E ok \in BOOLEAN :
          /\ ok \/ DeviceFallible(scmd[s].kind)
          /\ IF ok
             THEN /\ sresp' = [sresp EXCEPT ![s] = DeviceOk(scmd[s].kind)]
                  /\ spc' = [spc EXCEPT ![s] = "Respond"]
                  /\ UNCHANGED <<shdr, scmd, sinfo, sres, c2s>>
             ELSE CloseSession(s, "err")
    /\ devLock' = NoHolder
    /\ UNCHANGED <<envVars, devices, cst, netUp, s2c, peerSent, histVars>>
    /\ UNCHANGED cliVars

\* a Device whose method failed is removed from the registry
DeviceReturn_Evict(s) ==
    /\ spc[s] = "Device"
    /\ \E ok \in BOOLEAN :
          /\ ok \/ DeviceFallible(scmd[s].kind)
          /\ sresp' = [sresp EXCEPT ![s] =
                  IF ok THEN DeviceOk(scmd[s].kind) ELSE DeviceErr(scmd[s].kind)]
          /\ devices' = IF ok THEN devices ELSE {e \in devices : e.key # scmd[s].hwnd}
    /\ devLock' = NoHolder
    /\ spc' = [spc EXCEPT ![s] = "Respond"]
    /\ UNCHANGED <<envVars, netVars, shdr, scmd, sinfo, sres, histVars>>
    /\ UNCHANGED cliVars

\* a Device method that failed is invoked again
DeviceReturn_Retry(s) ==
    /\ spc[s] = "Device"
    /\ \E ok \in BOOLEAN :
          /\ ok \/ DeviceFallible(scmd[s].kind)
          /\ IF ok
             THEN /\ sresp' = [sresp EXCEPT ![s] = DeviceOk(scmd[s].kind)]
                  /\ spc' = [spc EXCEPT ![s] = "Respond"]
             ELSE /\ spc' = [spc EXCEPT ![s] = "Dispatch"]
                  /\ UNCHANGED sresp
    /\ devLock' = NoHolder
    /\ UNCHANGED <<envVars, devices, netVars, shdr, scmd, sinfo, sres, histVars>>
    /\ UNCHANGED cliVars

DeviceReturn(s) ==
    /\ spc[s] = "Device"
    /\ \E ok \in BOOLEAN :
          /\ ok \/ DeviceFallible(scmd[s].kind)
          /\ sresp' = [sresp EXCEPT ![s] =
                  IF ok THEN DeviceOk(scmd[s].kind) ELSE DeviceErr(scmd[s].kind)]
    /\ devLock' = NoHolder
    /\ spc' = [spc EXCEPT ![s] = "Respond"]
    /\ UNCHANGED <<envVars, devices, netVars, shdr, scmd, sinfo, sres, histVars>>
    /\ UNCHANGED cliVars

\* ---- server.rs: handle_connection, sending the response ----
WriteFails(c) == ~netUp[c] \/ cst[c] = "closed"

\* a session that turns to the next frame already received before it
\* writes the response
SrvWriteHeader_Overlap(s) ==
    /\ spc[s] = "Respond"
    /\ IF c2s[s] # <<>>
       THEN /\ spc' = [spc EXCEPT ![s] = "AwaitHeader"]
            /\ UNCHANGED <<sres, shdr, scmd, sinfo, sresp, c2s, s2c>>
       ELSE /\ netUp[s]
            /\ Deliver(s, <<HeaderBuf(MessageHeader(Len(EncodeResponse(sresp[s])),
                                                   shdr[s].ghost))>>)
            /\ spc' = [spc EXCEPT ![s] = "RespondBody"]
            /\ UNCHANGED <<sres, shdr, scmd, sinfo, sresp, c2s>>
    /\ UNCHANGED <<envVars, regVars, cst, netUp, peerSent, histVars>>
    /\ UNCHANGED cliVars

\* stream.write_all(&resp_header_buf)
SrvWriteHeader(s) ==
    /\ spc[s] = "Respond"
    /\ \/ /\ netUp[s]
          /\ Deliver(s, <<HeaderBuf(MessageHeader(Len(EncodeResponse(sresp[s])),
                                                 shdr[s].ghost))>>)
          /\ spc' = [spc EXCEPT ![s] = "RespondBody"]
          /\ UNCHANGED <<sres, shdr, scmd, sinfo, sresp, c2s>>
       \/ /\ WriteFails(s)
          /\ CloseSession(s, "err")
          /\ UNCHANGED s2c
    /\ UNCHANGED <<envVars, regVars, cst, netUp, peerSent, histVars>>
    /\ UNCHANGED cliVars

\* stream.write_all(&response_json); stream.flush(); the loop starts over
SrvWriteBody(s) ==
    /\ spc[s] = "RespondBody"
    /\ \/ /\ netUp[s]
          /\ Deliver(s, EncodeResponse(sresp[s]))
          /\ spc' = [spc EXCEPT ![s] = "AwaitHeader"]
          /\ shdr' = [shdr EXCEPT ![s] = NoHeader]
          /\ scmd' = [scmd EXCEPT ![s] = NoCmd]
          /\ sresp' = [sresp EXCEPT ![s] = NoResp]
          /\ nWritten' = [nWritten EXCEPT ![s] = @ + 1]
          /\ answered' = IF sresp[s].kind = "Window"
                         THEN answered \cup {sresp[s].val.hwnd} ELSE answered
          /\ UNCHANGED <<sres, sinfo, c2s>>
       \/ /\ WriteFails(s)
          /\ CloseSession(s, "err")
          /\ UNCHANGED <<s2c, nWritten, answered>>
    /\ UNCHANGED <<envVars, regVars, cst, netUp, peerSent,
                   nDecoded, devCalls, connectedOk>>
    /\ UNCHANGED cliVars

Session(s) ==
    \/ SrvReadHeader(s)
    \/ SrvReadBody(s)
    \/ DispatchSimple(s)
    \/ DispatchFind(s)
    \/ DispatchRegister(s)
    \/ DispatchResolve(s)
    \/ DeviceReturn(s)
    \/ SrvWriteHeader(s)
    \/ SrvWriteBody(s)

\* ---- client.rs ----
srvVars == <<envVars, regVars, sessVars, histVars>>

\* Client::connect: TcpStream::connect succeeds
ClientConnect ==
    /\ cst[ClientConn] = "idle"
    /\ cst' = [cst EXCEPT ![ClientConn] = "open"]
    /\ UNCHANGED <<srvVars, netUp, c2s, s2c, peerSent, cliVars>>

\* the Client and its RemoteDevices are dropped: the stream is closed
ClientDrop ==
    /\ cst[ClientConn] = "open"
    /\ \A t \in Tasks : tpc[t] = "idle"
    /\ cst' = [cst EXCEPT ![ClientConn] = "closed"]
    /\ UNCHANGED <<srvVars, netUp, c2s, s2c, peerSent, cliVars>>

\* a raw server at the other end of the Client's connection writes a header
\* declaring len payload bytes, followed by the bytes p
RawServerSend(len, p, max) ==
    /\ cst[ClientConn] = "open"
    /\ spc[ClientConn] = "NoSession"
    /\ netUp[ClientConn]
    /\ TotalSent(Conns) < max
    /\ s2c' = [s2c EXCEPT ![ClientConn] =
            @ \o <<HeaderBuf(MessageHeader(len, <<"srv", peerSent[ClientConn] + 1, len>>))>>
              \o p]
    /\ peerSent' = [peerSent EXCEPT ![ClientConn] = @ + 1]
    /\ UNCHANGED <<srvVars, cst, netUp, c2s, cliVars>>

\* a raw server writes a frame carrying p whose header has the version v
RawServerSendVersion(v, p, max) ==
    /\ cst[ClientConn] = "open"
    /\ spc[ClientConn] = "NoSession"
    /\ netUp[ClientConn]
    /\ TotalSent(Conns) < max
    /\ LET h == [MessageHeader(Len(p), <<"srv", peerSent[ClientConn] + 1, v>>)
                    EXCEPT !.version = v]
       IN s2c' = [s2c EXCEPT ![ClientConn] = @ \o <<HeaderBuf(h)>> \o p]
    /\ peerSent' = [peerSent EXCEPT ![ClientConn] = @ + 1]
    /\ UNCHANGED <<srvVars, cst, netUp, c2s, cliVars>>

\* the commands the methods of Client send, and those the methods of a
\* RemoteDevice with window info send
ClientMethodCommands(kinds) ==
    {c \in AllCommands : c.kind \in kinds \ HwndKinds}
\* a RemoteDevice whose methods take the handle from their caller
DeviceMethodCommands_AnyHwnd(info, kinds) ==
    {MkCmd(k, h, <<>>, CmdArgs(k)) : k \in kinds \cap HwndKinds, h \in Hwnds}
DeviceMethodCommands(info, kinds) ==
    {MkCmd(k, info.hwnd, <<>>, CmdArgs(k)) : k \in kinds \cap HwndKinds}

\* a task calls a method of the Client or of a RemoteDevice and reaches
\* stream.lock().await in send_command
BeginCall(t, cmd) ==
    /\ cst[ClientConn] = "open"
    /\ tpc[t] = "idle"
    /\ calls < MaxCalls
    /\ calls' = calls + 1
    /\ tpc' = [tpc EXCEPT ![t] = "lock"]
    /\ tcmd' = [tcmd EXCEPT ![t] = cmd]
    /\ tghost' = [tghost EXCEPT ![t] = <<t, calls + 1>>]
    /\ tres' = [tres EXCEPT ![t] = NoResult]
    /\ waiters' = Append(waiters, t)
    /\ UNCHANGED <<srvVars, netVars, streamLock, thdr, rdevs, wrOrder, rdOrder>>

StartCall(t, cmd) == BeginCall(t, cmd) /\ UNCHANGED cli

\* stream.lock().await returns the guard to the first waiter
AcquireLock_NoMutex(t) ==
    /\ tpc[t] = "lock"
    /\ streamLock' = t
    /\ waiters' = SelectSeq(waiters, LAMBDA u : u # t)
    /\ tpc' = [tpc EXCEPT ![t] = "writeHdr"]
    /\ UNCHANGED <<srvVars, cli, netVars, tcmd, thdr, tres, tghost, calls, rdevs,
                   wrOrder, rdOrder>>

\* a Mutex that hands the guard to any waiter
AcquireLock_Unfair(t) ==
    /\ tpc[t] = "lock"
    /\ streamLock = NoHolder
    /\ streamLock' = t
    /\ waiters' = SelectSeq(waiters, LAMBDA u : u # t)
    /\ tpc' = [tpc EXCEPT ![t] = "writeHdr"]
    /\ UNCHANGED <<srvVars, cli, netVars, tcmd, thdr, tres, tghost, calls, rdevs,
                   wrOrder, rdOrder>>

\* tokio's Mutex queues the callers of lock() in the order they called
AcquireLock(t) ==
    /\ tpc[t] = "lock"
    /\ streamLock = NoHolder
    /\ waiters # <<>> /\ Head(waiters) = t
    /\ streamLock' = t
    /\ waiters' = Tail(waiters)
    /\ tpc' = [tpc EXCEPT ![t] = "writeHdr"]
    /\ UNCHANGED <<srvVars, cli, netVars, tcmd, thdr, tres, tghost, calls, rdevs,
                   wrOrder, rdOrder>>

\* a guard that is dropped only where send_command reaches Ok(response)
Return_KeepGuard(t, r) ==
    /\ tpc' = [tpc EXCEPT ![t] = "idle"]
    /\ tres' = [tres EXCEPT ![t] = r]
    /\ streamLock' = IF streamLock = t /\ r.ok THEN NoHolder ELSE streamLock
    /\ tcmd' = [tcmd EXCEPT ![t] = NoCmd]
    /\ thdr' = [thdr EXCEPT ![t] = NoHeader]
    /\ tghost' = [tghost EXCEPT ![t] = NoGhost]
    /\ rdevs' = IF r.ok /\ r.resp.kind = "Window"
                    /\ tcmd[t].kind \in {"Connect", "ConnectByHwnd"}
                 THEN rdevs \cup {r.resp.val} ELSE rdevs

\* send_command returns r: the guard is dropped; connect_window and
\* connect_window_by_hwnd build a RemoteDevice from Response::Window
Return(t, r) ==
    /\ tpc' = [tpc EXCEPT ![t] = "idle"]
    /\ tres' = [tres EXCEPT ![t] = r]
    /\ streamLock' = IF streamLock = t THEN NoHolder ELSE streamLock
    /\ tcmd' = [tcmd EXCEPT ![t] = NoCmd]
    /\ thdr' = [thdr EXCEPT ![t] = NoHeader]
    /\ tghost' = [tghost EXCEPT ![t] = NoGhost]
    /\ rdevs' = IF r.ok /\ r.resp.kind = "Window"
                    /\ tcmd[t].kind \in {"Connect", "ConnectByHwnd"}
                 THEN rdevs \cup {r.resp.val} ELSE rdevs

IoError == [ok |-> FALSE, err |-> "IoError", resp |-> NoResp]
SerializationError == [ok |-> FALSE, err |-> "SerializationError", resp |-> NoResp]
Received(r) == [ok |-> TRUE, err |-> "none", resp |-> r]

\* ---- client.rs: the methods of Client and RemoteDevice ----
ApiOk(v) == [ok |-> TRUE, err |-> "none", msg |-> <<>>, val |-> v]
ApiErr(kind, m) == [ok |-> FALSE, err |-> kind, msg |-> m, val |-> "none"]
UnexpectedMsg == <<"Unexpected response">>

\* the Response kind each method matches as its success
ApiExpects(k) ==
    CASE k = "ListWindows" -> "Windows"
      [] k \in {"Connect", "ConnectByHwnd"} -> "Window"
      [] k = "Screenshot" -> "Screenshot"
      [] k = "GetSize" -> "Size"
      [] k = "Ping" -> "Pong"
      [] OTHER -> "Ok"

\* the PdbError variant each method wraps the message of Response::Error in
ErrorKind(k) ==
    CASE k = "ListWindows" -> "ConnectionError"
      [] k \in {"Connect", "ConnectByHwnd"} -> "WindowNotFound"
      [] k \in {"Click", "Swipe", "InputText", "KeyEvent"} -> "InputError"
      [] k = "Screenshot" -> "CaptureError"
      [] OTHER -> "HandleError"

\* methods that take every response but the expected one for a failure of
\* the server
MethodResult_NoCatchAll(cmd, r) ==
    IF ~r.ok THEN ApiErr(r.err, <<>>)
    ELSE IF r.resp.kind = ApiExpects(cmd.kind)
    THEN ApiOk(IF cmd.kind = "Ping" THEN "true" ELSE "value")
    ELSE ApiErr(ErrorKind(cmd.kind), IF r.resp.kind = "Error" THEN r.resp.val ELSE <<>>)

\* what the method that sent cmd returns when send_command returned r: `?`
\* passes an Err on; ping answers Ok(false) to everything but Pong; the
\* other methods match their success kind, then Response::Error(e), then _
MethodResult(cmd, r) ==
    IF ~r.ok THEN ApiErr(r.err, <<>>)
    ELSE IF cmd.kind = "Ping"
    THEN ApiOk(IF r.resp.kind = "Pong" THEN "true" ELSE "false")
    ELSE IF r.resp.kind = ApiExpects(cmd.kind) THEN ApiOk("value")
    ELSE IF r.resp.kind = "Error" THEN ApiErr(ErrorKind(cmd.kind), r.resp.val)
    ELSE ApiErr("ProtocolError", UnexpectedMsg)

\* stream.write_all(&header_buf)
ClientWriteHeader(t) ==
    /\ tpc[t] = "writeHdr"
    /\ IF netUp[ClientConn]
       THEN /\ c2s' = [c2s EXCEPT ![ClientConn] = Append(@,
                    HeaderBuf(MessageHeader(Len(EncodeCommand(tcmd[t])), tghost[t])))]
            /\ wrOrder' = Append(wrOrder, tghost[t])
            /\ tpc' = [tpc EXCEPT ![t] = "writeBody"]
            /\ UNCHANGED <<streamLock, tcmd, thdr, tres, tghost, rdevs>>
       ELSE /\ Return(t, IoError)
            /\ UNCHANGED <<c2s, wrOrder>>
    /\ UNCHANGED <<srvVars, cli, cst, netUp, s2c, peerSent, waiters, calls, rdOrder>>

\* stream.write_all(&command_json); stream.flush()
ClientWriteBody_Unlock(t) ==
    /\ tpc[t] = "writeBody"
    /\ netUp[ClientConn]
    /\ c2s' = [c2s EXCEPT ![ClientConn] = @ \o EncodeCommand(tcmd[t])]
    /\ tpc' = [tpc EXCEPT ![t] = "readHdr"]
    /\ streamLock' = NoHolder
    /\ UNCHANGED <<tcmd, thdr, tres, tghost, rdevs>>
    /\ UNCHANGED <<srvVars, cli, cst, netUp, s2c, peerSent, waiters, calls, wrOrder, rdOrder>>

ClientWriteBody(t) ==
    /\ tpc[t] = "writeBody"
    /\ IF netUp[ClientConn]
       THEN /\ c2s' = [c2s EXCEPT ![ClientConn] = @ \o EncodeCommand(tcmd[t])]
            /\ tpc' = [tpc EXCEPT ![t] = "readHdr"]
            /\ UNCHANGED <<streamLock, tcmd, thdr, tres, tghost, rdevs>>
       ELSE /\ Return(t, IoError)
            /\ UNCHANGED c2s
    /\ UNCHANGED <<srvVars, cli, cst, netUp, s2c, peerSent, waiters, calls, wrOrder, rdOrder>>

\* the server's end is gone and everything it wrote has been read
StreamEnded == spc[ClientConn] = "Closed" /\ s2c[ClientConn] = <<>>

\* stream.read_exact(&mut resp_header_buf)
ClientReadHeader(t) ==
    /\ tpc[t] = "readHdr"
    /\ \/ /\ netUp[ClientConn]
          /\ s2c[ClientConn] # <<>>
          /\ HeaderComplete(Head(s2c[ClientConn]))
          /\ thdr' = [thdr EXCEPT ![t] = ParseHeader(Head(s2c[ClientConn]))]
          /\ s2c' = [s2c EXCEPT ![ClientConn] = Tail(@)]
          /\ tpc' = [tpc EXCEPT ![t] = "readBody"]
          /\ UNCHANGED <<streamLock, tcmd, tres, tghost, rdevs>>
       \/ /\ ~netUp[ClientConn] \/ StreamEnded
          /\ Return(t, IoError)
          /\ UNCHANGED s2c
    /\ UNCHANGED <<srvVars, cli, cst, netUp, c2s, peerSent, waiters, calls, wrOrder, rdOrder>>

\* stream.read_exact(&mut resp_body) and serde_json::from_slice
ClientReadBody_Peek(t) ==
    /\ tpc[t] = "readBody"
    /\ netUp[ClientConn]
    /\ Len(s2c[ClientConn]) >= thdr[t].length
    /\ rdOrder' = Append(rdOrder, thdr[t].ghost)
    /\ LET payload == SubSeq(s2c[ClientConn], 1, thdr[t].length)
       IN Return(t, IF ResponseDecodes(payload)
                    THEN Received(DecodeResponse(payload))
                    ELSE SerializationError)
    /\ UNCHANGED <<srvVars, cli, cst, netUp, c2s, s2c, peerSent, waiters, calls, wrOrder>>

ClientReadBody(t) ==
    /\ tpc[t] = "readBody"
    /\ LET len == thdr[t].length
           payload == SubSeq(s2c[ClientConn], 1, len)
       IN \/ /\ netUp[ClientConn]
             /\ Len(s2c[ClientConn]) >= len
             /\ s2c' = [s2c EXCEPT ![ClientConn] = SubSeq(@, len + 1, Len(@))]
             /\ rdOrder' = Append(rdOrder, thdr[t].ghost)
             /\ Return(t, IF ResponseDecodes(payload)
                          THEN Received(DecodeResponse(payload))
                          ELSE SerializationError)
          \/ /\ \/ ~netUp[ClientConn]
                \/ spc[ClientConn] = "Closed" /\ Len(s2c[ClientConn]) < len
             /\ Return(t, IoError)
             /\ UNCHANGED <<s2c, rdOrder>>
    /\ UNCHANGED <<srvVars, cli, cst, netUp, c2s, peerSent, waiters, calls, wrOrder>>

\* the future of a call is dropped by its caller while it is suspended in
\* lock().await, in the first write_all or in the read of the response
\* header: the call ends without a result, a guard it holds is dropped, and
\* what it wrote and what it has not read stay in the stream. (A call
\* dropped inside a frame, between the two writes or the two reads, leaves
\* half a frame behind; frames are whole in this model and that case is
\* left out.)
AbandonCall(t) ==
    /\ tpc[t] \in {"lock", "writeHdr", "readHdr"}
    /\ tpc' = [tpc EXCEPT ![t] = "idle"]
    /\ streamLock' = IF streamLock = t THEN NoHolder ELSE streamLock
    /\ waiters' = SelectSeq(waiters, LAMBDA u : u # t)
    /\ tcmd' = [tcmd EXCEPT ![t] = NoCmd]
    /\ tghost' = [tghost EXCEPT ![t] = NoGhost]
    /\ UNCHANGED <<srvVars, cli, netVars, thdr, tres, calls, rdevs, wrOrder, rdOrder>>

SendCommand(t) ==
    \/ AcquireLock(t)
    \/ ClientWriteHeader(t)
    \/ ClientWriteBody(t)
    \/ ClientReadHeader(t)
    \/ ClientReadBody(t)

\* ---- bin/client.rs: run_remote_command ----
CliCommands == {"list", "connect", "click", "swipe", "text", "key", "screenshot", "ping"}

\* the Command of the method a command of the command line is named after
CliMethodKind(cmd) ==
    CASE cmd = "list" -> "ListWindows"
      [] cmd = "connect" -> "Connect"
      [] cmd = "click" -> "Click"
      [] cmd = "swipe" -> "Swipe"
      [] cmd = "text" -> "InputText"
      [] cmd = "key" -> "KeyEvent"
      [] cmd = "screenshot" -> "Screenshot"
      [] OTHER -> "Ping"

\* click, swipe, text, key and screenshot call connect_window_by_hwnd
\* first and their own method on the RemoteDevice it returns
CliTwoCalls(cmd) == cmd \in {"click", "swipe", "text", "key", "screenshot"}

\* the first method called: list_windows, connect_window(title), ping or
\* connect_window_by_hwnd(hwnd)
CliFirst(cmd) ==
    IF CliTwoCalls(cmd) THEN MkCmd("ConnectByHwnd", 1, <<>>, <<>>)
    ELSE IF cmd = "connect" THEN MkCmd("Connect", 0, TitleA, <<>>)
    ELSE MkCmd(CliMethodKind(cmd), 0, <<>>, <<>>)

\* the method called on the RemoteDevice
CliSecond(cmd, info) ==
    MkCmd(CliMethodKind(cmd), info.hwnd, <<>>, CmdArgs(CliMethodKind(cmd)))

\* pdb-client <cmd> ... is started with the arguments the command needs
CliRun(cmd) ==
    /\ cli.pc = "idle"
    /\ cst[ClientConn] = "idle"
    /\ cli' = [cmd |-> cmd, pc |-> "connect", out |-> "none"]
    /\ UNCHANGED <<srvVars, netVars, streamLock, waiters, tpc, tcmd, thdr, tres, tghost,
                   calls, rdevs, wrOrder, rdOrder>>

\* Client::connect(&addr).await?: one TcpStream::connect; its error ends
\* the process
CliConnect ==
    /\ cli.pc = "connect"
    /\ \E ok \in BOOLEAN :
          IF ok
          THEN /\ cst' = [cst EXCEPT ![ClientConn] = "open"]
               /\ cli' = [cli EXCEPT !.pc = "call"]
          ELSE /\ cli' = [cli EXCEPT !.pc = "exit", !.out = "IoError"]
               /\ UNCHANGED cst
    /\ UNCHANGED <<srvVars, netUp, c2s, s2c, peerSent, streamLock, waiters, tpc, tcmd,
                   thdr, tres, tghost, calls, rdevs, wrOrder, rdOrder>>

\* the first method is called
CliCall ==
    /\ cli.pc = "call"
    /\ BeginCall("t1", CliFirst(cli.cmd))
    /\ cli' = [cli EXCEPT !.pc = "wait"]

\* the process returns: the Client is dropped and the stream closed
CliExit(out) ==
    /\ cli' = [cli EXCEPT !.pc = "exit", !.out = out]
    /\ cst' = [cst EXCEPT ![ClientConn] = "closed"]
    /\ UNCHANGED <<srvVars, netUp, c2s, s2c, peerSent, streamLock, waiters, tpc, tcmd,
                   thdr, tres, tghost, calls, rdevs, wrOrder, rdOrder>>

\* the first method has returned: `?` ends the process on an Err; click,
\* swipe, text, key and screenshot go on with the RemoteDevice
CliNext ==
    /\ cli.pc = "wait"
    /\ tpc["t1"] = "idle"
    /\ LET res == MethodResult(CliFirst(cli.cmd), tres["t1"])
       IN IF ~res.ok THEN CliExit(res.err)
          ELSE IF CliTwoCalls(cli.cmd)
          THEN /\ BeginCall("t1", CliSecond(cli.cmd, tres["t1"].resp.val))
               /\ cli' = [cli EXCEPT !.pc = "wait2"]
          ELSE CliExit("ok")

\* the method of the RemoteDevice has returned
CliFinish ==
    /\ cli.pc = "wait2"
    /\ tpc["t1"] = "idle"
    /\ LET res == MethodResult(MkCmd(CliMethodKind(cli.cmd), 0, <<>>, <<>>), tres["t1"])
       IN CliExit(IF res.ok THEN "ok" ELSE res.err)

\* ---- specification of one run of the command-line client ----
NextCli ==
    \/ \E cmd \in CliCommands : CliRun(cmd)
    \/ CliConnect
    \/ CliCall
    \/ CliNext
    \/ CliFinish
    \/ SendCommand("t1")
    \/ NetBreak(ClientConn)
    \/ Accept(ClientConn)
    \/ Session(ClientConn)

SpecCli == Init /\ [][NextCli]_vars

\* ---- specification of one Client with concurrent callers ----
ClientKinds == {"Ping", "ConnectByHwnd", "GetSize"}

NextClient ==
    \/ ClientConnect
    \/ \E t \in Tasks, cmd \in ClientMethodCommands(ClientKinds) : StartCall(t, cmd)
    \/ \E t \in Tasks, info \in rdevs :
          \E cmd \in DeviceMethodCommands(info, ClientKinds) : StartCall(t, cmd)
    \/ \E t \in Tasks : SendCommand(t)
    \/ ClientDrop
    \/ NetBreak(ClientConn)
    \/ Accept(ClientConn)
    \/ Session(ClientConn)

Spec == Init /\ [][NextClient]_vars

\* ---- specification of the server with raw peers ----
ServerCommands ==
    {MkCmd("Ping", 0, <<>>, <<>>)}
    \cup {MkCmd("Connect", 0, t, <<>>) : t \in QueryTitles}
    \cup {MkCmd("ConnectByHwnd", h, <<>>, <<>>) : h \in Hwnds}
    \cup {MkCmd("Screenshot", h, <<>>, <<>>) : h \in Hwnds}

NextServer ==
    \/ \E h \in Hwnds : EnvRetitle(h)
    \/ \E h \in Hwnds : EnvOpen(h)
    \/ \E c \in Conns : PeerConnect(c)
    \/ \E c \in Conns, cmd \in ServerCommands : PeerSend(c, EncodeCommand(cmd), MaxPeerFrames, FALSE)
    \/ \E c \in Conns : PeerClose(c)
    \/ \E c \in Conns : Accept(c)
    \/ \E c \in Conns : Session(c)

SpecServer == Init /\ [][NextServer]_vars

\* ---- specification of sessions contending for the registry ----
ContendCommands ==
    {MkCmd("Ping", 0, <<>>, <<>>)}
    \cup {MkCmd("ConnectByHwnd", h, <<>>, <<>>) : h \in Hwnds}
    \cup {MkCmd("Screenshot", h, <<>>, <<>>) : h \in Hwnds}

NextContend ==
    \/ \E c \in Conns : PeerConnect(c)
    \/ \E c \in Conns, cmd \in ContendCommands :
          PeerSend(c, EncodeCommand(cmd), MaxContendFrames, FALSE)
    \/ \E c \in Conns : Accept(c)
    \/ \E c \in Conns : Session(c)

SpecContend == Init /\ [][NextContend]_vars

\* ---- specification of one session fed every command kind ----
DispatchPayloads == {EncodeCommand(cmd) : cmd \in AllCommands} \cup {GarbagePayload}

NextDispatch ==
    \/ \E h \in Hwnds : EnvOpen(h)
    \/ PeerConnect(ClientConn)
    \/ \E p \in DispatchPayloads : PeerSend(ClientConn, p, MaxPeerFrames, TRUE)
    \/ PeerClose(ClientConn)
    \/ Accept(ClientConn)
    \/ Session(ClientConn)

SpecDispatch == Init /\ [][NextDispatch]_vars

\* ---- specification of one session whose peer leaves the responses unread ----
SessionCommands ==
    {MkCmd("Disconnect", 0, <<>>, <<>>),
     MkCmd("Ping", 0, <<>>, <<>>),
     MkCmd("Connect", 0, <<"z">>, <<>>),
     MkCmd("ConnectByHwnd", 1, <<>>, <<>>),
     MkCmd("Click", 1, <<>>, CmdArgs("Click")),
     MkCmd("GetSize", 2, <<>>, <<>>)}

SessionPayloads == {EncodeCommand(cmd) : cmd \in SessionCommands} \cup {GarbagePayload}

NextSession ==
    \/ PeerConnectHold(ClientConn)
    \/ \E p \in SessionPayloads : PeerSend(ClientConn, p, MaxPeerFrames, TRUE)
    \/ PeerClose(ClientConn)
    \/ NetBreak(ClientConn)
    \/ Accept(ClientConn)
    \/ Session(ClientConn)

SpecSession == Init /\ [][NextSession]_vars

\* the runtime runs every task that can take a step: a pending connection
\* is accepted, and a session whose read, write, lock or Device call can
\* complete goes on
SpecSessionFair ==
    /\ SpecSession
    /\ WF_vars(Accept(ClientConn))
    /\ WF_vars(Session(ClientConn))

\* ---- specification of the framing: a session fed whole, cut and
\* ---- overlong frames, and a Client fed frames by a raw server ----
FramePayloads ==
    {<<>>, GarbagePayload, EncodeCommand(MkCmd("Ping", 0, <<>>, <<>>)),
     EncodeCommand(MkCmd("ConnectByHwnd", 1, <<>>, <<>>)),
     EncodeCommand(MkCmd("Click", 1, <<>>, CmdArgs("Click")))}

RawResponses ==
    {<<>>, GarbagePayload, EncodeResponse(RespPong), EncodeResponse(RespError(NotConnectedMsg))}

NextFrames ==
    \/ PeerConnect(PeerConn)
    \/ \E p \in FramePayloads : PeerSend(PeerConn, p, MaxPeerFrames, TRUE)
    \/ \E p \in FramePayloads, hb \in {1, 7, 8}, pb \in 0..3 :
          PeerTruncate(PeerConn, p, hb, pb, MaxPeerFrames)
    \/ PeerClaim(PeerConn, HugeLength, MaxPeerFrames)
    \/ PeerClose(PeerConn)
    \/ Accept(PeerConn)
    \/ Session(PeerConn)
    \/ ClientConnect
    \/ StartCall("t1", MkCmd("Ping", 0, <<>>, <<>>))
    \/ SendCommand("t1")
    \/ \E p \in RawResponses : RawServerSend(Len(p), p, MaxPeerFrames)
    \/ RawServerSend(HugeLength, <<>>, MaxPeerFrames)

SpecFrames == Init /\ [][NextFrames]_vars

\* ---- specification of the accept loop: two connections, each refused or
\* ---- served by its own session, fed whole, undecodable and cut frames ----
AcceptPayloads ==
    {GarbagePayload, EncodeCommand(MkCmd("Ping", 0, <<>>, <<>>)),
     EncodeCommand(MkCmd("ConnectByHwnd", 1, <<>>, <<>>)),
     EncodeCommand(MkCmd("GetSize", 1, <<>>, <<>>))}

NextAccept ==
    \E c \in Conns :
        \/ PeerConnectHold(c)
        \/ \E p \in AcceptPayloads : PeerSend(c, p, MaxPeerFrames, FALSE)
        \/ PeerTruncate(c, GarbagePayload, 1, 0, MaxPeerFrames)
        \/ PeerClose(c)
        \/ Accept(c)
        \/ AcceptError(c)
        \/ Session(c)

SpecAccept == Init /\ [][NextAccept]_vars

\* ---- specification of stalls: a peer that stops sending, before a header
\* ---- or inside a frame, and a server that stops answering a Client ----
NextStall ==
    \/ PeerConnect(PeerConn)
    \/ \E k \in {"Ping", "ConnectByHwnd", "GetSize"} :
          PeerSend(PeerConn, EncodeCommand(MkCmd(k, 1, <<>>, <<>>)), MaxPeerFrames, FALSE)
    \/ PeerClaim(PeerConn, 1, MaxPeerFrames)
    \/ PeerClose(PeerConn)
    \/ Accept(PeerConn)
    \/ Session(PeerConn)
    \/ ClientConnect
    \/ \E t \in Tasks : StartCall(t, MkCmd("Ping", 0, <<>>, <<>>))
    \/ \E t \in Tasks : SendCommand(t)
    \/ RawServerSend(Len(EncodeResponse(RespPong)), EncodeResponse(RespPong), MaxPeerFrames)
    \/ RawServerSend(HugeLength, <<>>, MaxPeerFrames)

SpecStall == Init /\ [][NextStall]_vars

\* ---- specification of one Client whose callers may drop their calls ----
NextCancel ==
    \/ ClientConnect
    \/ \E t \in Tasks, cmd \in ClientMethodCommands(ClientKinds) : StartCall(t, cmd)
    \/ \E t \in Tasks, info \in rdevs :
          \E cmd \in DeviceMethodCommands(info, ClientKinds) : StartCall(t, cmd)
    \/ \E t \in Tasks : SendCommand(t)
    \/ \E t \in Tasks : AbandonCall(t)
    \/ Accept(ClientConn)
    \/ Session(ClientConn)

SpecCancel == Init /\ [][NextCancel]_vars

\* ---- specification of the exits of send_command: callers queued on one
\* ---- Client whose server answers every command, with Pong or with bytes
\* ---- that are no Response, over a transport that may fail ----
ReleaseResponses == {EncodeResponse(RespPong), GarbagePayload}

ServerAnswers == \E p \in ReleaseResponses : RawServerSend(Len(p), p, MaxCalls)

NextRelease ==
    \/ ClientConnect
    \/ \E t \in Tasks : StartCall(t, MkCmd("Ping", 0, <<>>, <<>>))
    \/ \E t \in Tasks : SendCommand(t)
    \/ NetBreak(ClientConn)
    \/ ServerAnswers

SpecRelease == Init /\ [][NextRelease]_vars

\* the runtime polls every call that can go on, and the server at the other
\* end writes a response frame for every command
SpecReleaseFair ==
    /\ SpecRelease
    /\ \A t \in Tasks : WF_vars(SendCommand(t))
    /\ WF_vars(ServerAnswers)

\* ---- specification of RemoteDevices: two callers connect to windows by
\* ---- handle and call the methods of the RemoteDevices they were given ----
DeviceKinds == {"Ping", "ConnectByHwnd", "GetSize", "Click"}

NextDevice ==
    \/ ClientConnect
    \/ \E t \in {"t1", "t2"}, cmd \in ClientMethodCommands(DeviceKinds) : StartCall(t, cmd)
    \/ \E t \in {"t1", "t2"}, info \in rdevs :
          \E cmd \in DeviceMethodCommands(info, DeviceKinds) : StartCall(t, cmd)
    \/ \E t \in {"t1", "t2"} : SendCommand(t)
    \/ Accept(ClientConn)
    \/ Session(ClientConn)

SpecDevice == Init /\ [][NextDevice]_vars

\* ---- specification of header versions: a session and a Client fed
\* ---- frames whose headers carry any version ----
Versions == {0, PROTOCOL_VERSION, HugeLength}

VersionCommands ==
    {MkCmd("Ping", 0, <<>>, <<>>),
     MkCmd("Connect", 0, <<"z">>, <<>>),
     MkCmd("ConnectByHwnd", 1, <<>>, <<>>),
     MkCmd("GetSize", 1, <<>>, <<>>)}

NextVersion ==
    \/ PeerConnectHold(PeerConn)
    \/ \E cmd \in VersionCommands, v \in Versions :
          PeerSendVersion(PeerConn, EncodeCommand(cmd), v, MaxPeerFrames)
    \/ Accept(PeerConn)
    \/ Session(PeerConn)
    \/ ClientConnect
    \/ StartCall("t1", MkCmd("Ping", 0, <<>>, <<>>))
    \/ SendCommand("t1")
    \/ \E v \in Versions :
          RawServerSendVersion(v, EncodeResponse(RespPong), MaxContendFrames)

SpecVersion == Init /\ [][NextVersion]_vars

\* ---- device.rs: the methods of Device that send input ----
InputOps == {"Click", "Swipe", "InputText", "KeyEvent"}

\* the calls in progress on window h by threads other than u
Others(u, h) == {v \in Threads \ {u} : dcall[v].pc # "idle" /\ dcall[v].hwnd = h}

\* dcall with the calls in progress on h, but that of u, marked as disturbed
Disturb(u, h) ==
    [v \in Threads |-> IF v # u /\ dcall[v].pc # "idle" /\ dcall[v].hwnd = h
                        THEN [dcall[v] EXCEPT !.alone = FALSE] ELSE dcall[v]]

\* the user minimizes or restores a window
EnvShowWindow(h, min) ==
    /\ iconic[h] # min
    /\ iconic' = [iconic EXCEPT ![h] = min]
    /\ dcall' = Disturb("user", h)
    /\ UNCHANGED <<windows, calc, regVars, netVars, sessVars, histVars, cliVars>>

\* a thread calls click, swipe, input_text or key_event of a Device of h
DevCall(u, op, h) ==
    /\ dcall[u].pc = "idle"
    /\ dcall' = [Disturb(u, h) EXCEPT ![u] =
            [op |-> op, hwnd |-> h, pc |-> "ensure", was_minimized |-> FALSE,
             result |-> "none", found |-> iconic[h], alone |-> Others(u, h) = {}]]
    /\ UNCHANGED <<windows, iconic, calc, regVars, netVars, sessVars, histVars, cliVars>>

\* ensure_visible: let was_minimized = IsIconic(self.hwnd)
DevIsIconic(u) ==
    /\ dcall[u].pc = "ensure"
    /\ dcall' = [dcall EXCEPT ![u].was_minimized = iconic[dcall[u].hwnd],
                              ![u].pc = IF iconic[dcall[u].hwnd] THEN "show" ELSE "input"]
    /\ UNCHANGED <<windows, iconic, calc, regVars, netVars, sessVars, histVars, cliVars>>

\* ensure_visible: ShowWindow(self.hwnd, SW_SHOWNOACTIVATE)
DevShow(u) ==
    /\ dcall[u].pc = "show"
    /\ iconic' = [iconic EXCEPT ![dcall[u].hwnd] = FALSE]
    /\ dcall' = [dcall EXCEPT ![u].pc = "input"]
    /\ UNCHANGED <<windows, calc, regVars, netVars, sessVars, histVars, cliVars>>

\* an input step whose error returns at once
DevInput_EarlyReturn(u) ==
    /\ dcall[u].pc = "input"
    /\ \E r \in {"ok"} \cup (IF DeviceFallible(dcall[u].op) THEN {"err"} ELSE {}) :
          dcall' = [dcall EXCEPT ![u].result = r,
                                 ![u].pc = IF r = "ok" THEN "restore" ELSE "done"]
    /\ UNCHANGED <<windows, iconic, calc, regVars, netVars, sessVars, histVars, cliVars>>

\* focus, client_to_screen and the function of input.rs: let result = ...
DevInput(u) ==
    /\ dcall[u].pc = "input"
    /\ \E r \in {"ok"} \cup (IF DeviceFallible(dcall[u].op) THEN {"err"} ELSE {}) :
          dcall' = [dcall EXCEPT ![u].result = r, ![u].pc = "restore"]
    /\ UNCHANGED <<windows, iconic, calc, regVars, netVars, sessVars, histVars, cliVars>>

\* restore_minimized(was_minimized): ShowWindow(self.hwnd, SW_MINIMIZE)
DevRestoreMinimized(u) ==
    /\ dcall[u].pc = "restore"
    /\ iconic' = IF dcall[u].was_minimized
                 THEN [iconic EXCEPT ![dcall[u].hwnd] = TRUE] ELSE iconic
    /\ dcall' = [dcall EXCEPT ![u].pc = "done"]
    /\ UNCHANGED <<windows, calc, regVars, netVars, sessVars, histVars, cliVars>>

\* the method returns result
DevReturn(u) ==
    /\ dcall[u].pc = "done"
    /\ dcall' = [dcall EXCEPT ![u] = NoCall]
    /\ UNCHANGED <<windows, iconic, calc, regVars, netVars, sessVars, histVars, cliVars>>

\* ---- specification of the input methods of Device: two threads of a
\* ---- library user and the user of the desktop act on two windows ----
NextInput ==
    \/ \E h \in Hwnds, min \in BOOLEAN : EnvShowWindow(h, min)
    \/ \E u \in Threads, op \in InputOps, h \in Hwnds : DevCall(u, op, h)
    \/ \E u \in Threads : DevIsIconic(u)
    \/ \E u \in Threads : DevShow(u)
    \/ \E u \in Threads : DevInput(u)
    \/ \E u \in Threads : DevRestoreMinimized(u)
    \/ \E u \in Threads : DevReturn(u)

SpecInput == Init /\ [][NextInput]_vars

\* ---- the arithmetic of the library, one call at a time ----
\* payload sizes, as limbs: below, at and above 2^32
PayloadSizes ==
    {<<a, b, c, d>> : a \in {0, 1, 65535}, b \in {0, 1, 32768, 65535}, c \in {0, 1, 65535},
                      d \in {0, 1}}

\* a function of the library is called with its arguments
CalcCall(fn, arg) ==
    /\ calc.pc = "idle"
    /\ calc' = [fn |-> fn, arg |-> arg, pc |-> "called", out |-> <<>>]
    /\ UNCHANGED <<windows, iconic, dcall, regVars, netVars, sessVars, histVars, cliVars>>

\* the header of a frame whose payload has calc.arg bytes is built
CalcHeader ==
    /\ calc.pc = "called" /\ calc.fn = "header"
    /\ calc' = [calc EXCEPT !.pc = "done", !.out = HeaderBufFor(calc.arg)]
    /\ UNCHANGED <<windows, iconic, dcall, regVars, netVars, sessVars, histVars, cliVars>>

\* input.rs, mouse_swipe: let steps = 50u32.max(duration_ms / 10)
steps(duration_ms) ==
    IF duration_ms \div 10 > 50 THEN duration_ms \div 10 ELSE 50

\* input.rs, mouse_swipe: (duration_ms / steps).max(5), in milliseconds
step_delay(duration_ms) ==
    IF duration_ms \div steps(duration_ms) > 5
    THEN duration_ms \div steps(duration_ms) ELSE 5

\* the durations a swipe is called with; duration_ms is a u32, of which the
\* values below 2^31 are taken
Durations == {0, 1, 49, 100, 249, 250, 251, 499, 500, 505, 509, 510, 1000, 65535, HugeLength}

\* mouse_swipe computes the number of steps and the delay of a step, and
\* sleeps step_delay in each of the steps iterations of its loop
CalcSwipe ==
    /\ calc.pc = "called" /\ calc.fn = "mouse_swipe"
    /\ calc' = [calc EXCEPT !.pc = "done",
                            !.out = <<steps(calc.arg[1]), step_delay(calc.arg[1])>>]
    /\ UNCHANGED <<windows, iconic, dcall, regVars, netVars, sessVars, histVars, cliVars>>

\* x * 65535 leaves the range of i32
MulOverflows(x) == x > 32768 \/ x < -32768

\* the low 32 bits of x * 65535 = x * 65536 - x as an i32, for the
\* overflowing x of up to 16 bits: the high half of the product is x - 1
WrappingMul(x) == (x - 65536) * 65536 - x

\* the quotient of i32, which truncates towards zero; b > 0
TruncDiv(a, b) == IF a >= 0 THEN a \div b ELSE -((-a) \div b)

\* input.rs, screen_to_absolute, for one coordinate: (x * 65535) / screen_width.
\* The set of the outcomes: a division by zero panics; the product that
\* overflows panics in a build with overflow checks and wraps in one without
screen_to_absolute(x, screen_width) ==
    IF screen_width = 0 THEN {<<"panic">>}
    ELSE IF MulOverflows(x)
         THEN {<<"panic">>, <<"value", TruncDiv(WrappingMul(x), screen_width)>>}
         ELSE {<<"value", TruncDiv(x * 65535, screen_width)>>}

\* the coordinates passed and the widths GetSystemMetrics(SM_CXSCREEN) returns
Coordinates == {-1, 0, 1, 960, 1919, 32768, 32769, 40000, 65535}
ScreenWidths == {0, 1, 1920, 32769, 32770, 40001}

\* screen_to_absolute is called with the coordinate calc.arg[1] while the
\* screen is calc.arg[2] wide
CalcAbsolute ==
    /\ calc.pc = "called" /\ calc.fn = "screen_to_absolute"
    /\ \E o \in screen_to_absolute(calc.arg[1], calc.arg[2]) :
          calc' = IF o[1] = "panic" THEN [calc EXCEPT !.pc = "panicked"]
                  ELSE [calc EXCEPT !.pc = "done", !.out = <<o[2]>>]
    /\ UNCHANGED <<windows, iconic, dcall, regVars, netVars, sessVars, histVars, cliVars>>

\* the caller takes the value and the next call can start
CalcDone ==
    /\ calc.pc \in {"done", "panicked"}
    /\ calc' = NoCalc
    /\ UNCHANGED <<windows, iconic, dcall, regVars, netVars, sessVars, histVars, cliVars>>

NextCalc ==
    \/ \E n \in PayloadSizes : CalcCall("header", n)
    \/ CalcHeader
    \/ \E d \in Durations : CalcCall("mouse_swipe", <<d>>)
    \/ CalcSwipe
    \/ \E x \in Coordinates, w \in ScreenWidths : CalcCall("screen_to_absolute", <<x, w>>)
    \/ CalcAbsolute
    \/ CalcDone

SpecCalc == Init /\ [][NextCalc]_vars

\* ---- specification of the methods of Client and RemoteDevice: one caller
\* ---- calls every method and a raw server answers with any Response ----
MethodKinds == CommandKinds \ {"Disconnect"}

\* one command for each method of Client
MethodCommands ==
    {c \in ClientMethodCommands(MethodKinds) : c.hwnd # 2 /\ c.title # <<"z">>}

MethodResponses ==
    {RespOk, RespPong, RespError(NotConnectedMsg),
     MkResp("Window", get_window_info(<<Window1>>, 1)),
     MkResp("Windows", <<get_window_info(<<Window1>>, 1)>>),
     DeviceOk("GetSize"), DeviceOk("Screenshot")}

NextMethods ==
    \/ ClientConnect
    \/ \E cmd \in MethodCommands : StartCall("t1", cmd)
    \/ \E info \in rdevs :
          \E cmd \in DeviceMethodCommands(info, MethodKinds) : StartCall("t1", cmd)
    \/ SendCommand("t1")
    \/ \E r \in MethodResponses :
          RawServerSend(Len(EncodeResponse(r)), EncodeResponse(r), MaxPeerFrames)

SpecMethods == Init /\ [][NextMethods]_vars

\* ---- specification of the search by title: a session fed Connect with
\* ---- titles that some, all or none of the windows contain, on a host
\* ---- whose windows open, change their title and are hidden ----
FindCommands ==
    ServerCommands \cup {MkCmd("Connect", 0, t, <<>>) : t \in {<<>>, <<"p">>}}

NextFind ==
    \/ \E h \in Hwnds : EnvRetitle(h)
    \/ \E h \in Hwnds : EnvOpen(h)
    \/ \E h \in Hwnds : EnvHide(h)
    \/ PeerConnect(PeerConn)
    \/ \E cmd \in FindCommands : PeerSend(PeerConn, EncodeCommand(cmd), MaxPeerFrames, FALSE)
    \/ Accept(PeerConn)
    \/ Session(PeerConn)

SpecFind == Init /\ [][NextFind]_vars

\* ---- specification of the codec: a Command and a Response are drawn,
\* ---- serialized into the two streams and deserialized from them ----
CodecTexts == {<<>>, <<"n", "p">>, <<"a", "\"", "\\">>}
CodecInts == {0 - 2147483647, 0 - 1, 0, 10, 2147483647}
CodecHwnds == {0, 1, 2147483647}

CodecCommands ==
    {MkCmd(k, 0, <<>>, <<>>) : k \in UnitKinds}
    \cup {MkCmd("Connect", 0, t, <<>>) : t \in CodecTexts}
    \cup {MkCmd(k, h, <<>>, <<>>) :
            k \in {"ConnectByHwnd", "Screenshot", "GetSize", "Focus"}, h \in CodecHwnds}
    \cup {MkCmd("Click", 1, <<>>, <<x, y>>) : x \in CodecInts, y \in {0 - 1, 20}}
    \cup {MkCmd("Swipe", 2, <<>>, <<x, 0 - 5, 5, x, d>>) : x \in CodecInts, d \in {0, 100}}
    \cup {MkCmd("InputText", 1, <<>>, <<t>>) : t \in CodecTexts}
    \cup {MkCmd("KeyEvent", 1, <<>>, <<k>>) : k \in KeyCodes}

CodecInfos ==
    {get_window_info(<<Window1>>, 1), get_window_info(<<>>, 2147483647),
     [hwnd |-> 2, title |-> <<"a", "\"", "\\">>, class_name |-> <<>>,
      rect |-> <<0 - 10, 0 - 2147483647, 2147483647, 0>>, visible |-> FALSE]}

CodecResponses ==
    {RespOk, RespPong}
    \cup {RespError(m) : m \in {NotConnectedMsg, <<>>, WindowNotFoundMsg(<<"a", "\"">>)}}
    \cup {MkResp("Window", i) : i \in CodecInfos}
    \cup {MkResp("Windows", l) : l \in {<<>>} \cup {<<i, j>> : i, j \in CodecInfos}}
    \cup {MkResp("Size", [width |-> w, height |-> 600]) : w \in CodecInts}
    \cup {MkResp("Screenshot", [width |-> w, height |-> 1, data |-> d]) :
            w \in {0, 2147483647}, d \in {<<>>, <<255, 0, 0, 255>>}}

\* a Command and a Response are built
CodecPick(c, r) ==
    /\ cst[ClientConn] = "idle"
    /\ tcmd["t1"] = NoCmd
    /\ tcmd' = [tcmd EXCEPT !["t1"] = c]
    /\ sresp' = [sresp EXCEPT ![ClientConn] = r]
    /\ UNCHANGED <<envVars, regVars, netVars, spc, shdr, scmd, sinfo, sres, histVars>>
    /\ UNCHANGED <<cli, streamLock, waiters, tpc, thdr, tres, tghost, calls, rdevs,
                   wrOrder, rdOrder>>

\* serde_json::to_vec of both
CodecEncode ==
    /\ tcmd["t1"] # NoCmd
    /\ tghost["t1"] = NoGhost
    /\ c2s' = [c2s EXCEPT ![ClientConn] = EncodeCommand(tcmd["t1"])]
    /\ s2c' = [s2c EXCEPT ![ClientConn] = EncodeResponse(sresp[ClientConn])]
    /\ tghost' = [tghost EXCEPT !["t1"] = <<"codec">>]
    /\ UNCHANGED <<envVars, regVars, cst, netUp, peerSent, sessVars, histVars>>
    /\ UNCHANGED <<cli, streamLock, waiters, tpc, tcmd, thdr, tres, calls, rdevs,
                   wrOrder, rdOrder>>

\* serde_json::from_slice of both
CodecDecode ==
    /\ tghost["t1"] = <<"codec">>
    /\ tres["t1"] = NoResult
    /\ scmd' = [scmd EXCEPT ![ClientConn] =
            IF CommandDecodes(c2s[ClientConn])
            THEN DecodeCommand(c2s[ClientConn]) ELSE NoCmd]
    /\ tres' = [tres EXCEPT !["t1"] =
            IF ResponseDecodes(s2c[ClientConn])
            THEN Received(DecodeResponse(s2c[ClientConn])) ELSE SerializationError]
    /\ UNCHANGED <<envVars, regVars, netVars, spc, shdr, sinfo, sresp, sres, histVars>>
    /\ UNCHANGED <<cli, streamLock, waiters, tpc, tcmd, thdr, tghost, calls, rdevs,
                   wrOrder, rdOrder>>

NextCodec ==
    \/ \E c \in CodecCommands, r \in CodecResponses : CodecPick(c, r)
    \/ CodecEncode
    \/ CodecDecode

SpecCodec == Init /\ [][NextCodec]_vars

\* ---- properties ----
Keys == HashMapKeys(devices)
Busy == {"Dispatch", "Register", "Device", "Respond", "RespondBody"}
Responding == {"Respond", "RespondBody"}
IsNotConnected(r) == r.kind = "Error" /\ r.val = NotConnectedMsg

InExchange == {"writeHdr", "writeBody", "readHdr", "readBody"}
IsPrefix(a, b) == Len(a) <= Len(b) /\ \A i \in 1..Len(a) : a[i] = b[i]

\* C1: on the Client's connection at most one caller is between the first
\* byte of its command frame and the last byte of the response, that
\* caller holds the stream lock, and at most one command frame written so
\* far has not had its response read completely.
C1_OneExchangeInFlight ==
    /\ Cardinality({t \in Tasks : tpc[t] \in InExchange}) <= 1
    /\ \A t \in Tasks : tpc[t] \in InExchange => streamLock = t
    /\ Len(wrOrder) <= Len(rdOrder) + 1

C1_Witness ==
    \E t, u \in Tasks :
        /\ tpc[t] = "readHdr" /\ tcmd[t].kind = "GetSize"
        /\ tpc[u] = "lock" /\ tcmd[u].kind = "Ping"

\* the pairing of section 4.2
SuccessKind(k) ==
    CASE k \in {"Connect", "ConnectByHwnd"} -> "Window"
      [] k = "ListWindows" -> "Windows"
      [] k = "Screenshot" -> "Screenshot"
      [] k = "GetSize" -> "Size"
      [] k = "Ping" -> "Pong"
      [] OTHER -> "Ok"

\* C2: the response frames are read in the order the command frames were
\* written, the response header a caller reads is the one the server wrote
\* for that caller's command, and the response it returns is of the kind
\* paired with its command (or Error), about its own handle.
C2_FifoOwnResponse ==
    /\ [](/\ IsPrefix(rdOrder, wrOrder)
          /\ \A t \in Tasks : tpc[t] = "readBody" => thdr[t].ghost = tghost[t])
    /\ [][\A t \in Tasks :
            (tpc[t] = "readBody" /\ tpc'[t] = "idle" /\ tres'[t].ok)
            => /\ tres'[t].resp.kind \in {SuccessKind(tcmd[t].kind), "Error"}
               /\ tres'[t].resp.kind = "Window"
                    => tres'[t].resp.val.hwnd = tcmd[t].hwnd]_vars

C2_Witness ==
    \E t \in Tasks :
        /\ tpc[t] = "readBody"
        /\ thdr[t].ghost = tghost[t]
        /\ Len(rdOrder) = 1
        /\ Len(waiters) = 1

\* C3: a session has written exactly one response frame for every command
\* it decoded whenever it waits for a header or a body or has ended
\* cleanly, and is exactly one response behind while it handles a command,
\* so it never writes two responses for a command and never reads the next
\* header before the response is written; a failed write ends the session.
C3_OneResponsePerCommand ==
    \A s \in Conns :
        /\ nWritten[s] <= nDecoded[s]
        /\ nDecoded[s] <= nWritten[s] + 1
        /\ spc[s] \in {"NoSession", "AwaitHeader", "AwaitBody"} => nDecoded[s] = nWritten[s]
        /\ spc[s] \in Busy => nDecoded[s] = nWritten[s] + 1
        /\ (spc[s] = "Closed" /\ sres[s] = "ok") => nDecoded[s] = nWritten[s]

C3_Witness ==
    \E s \in Conns : spc[s] = "AwaitBody" /\ nDecoded[s] = 1 /\ nWritten[s] = 1

\* C4: the response handle_command returns for a command is of the kind
\* paired with the command's kind, or an Error; the commands that cannot
\* fail (Ping, Disconnect, ListWindows) always get their paired kind.
C4_DispatchPairing ==
    \A s \in Conns :
        spc[s] \in Responding =>
            /\ sresp[s].kind \in {SuccessKind(scmd[s].kind), "Error"}
            /\ scmd[s].kind \in UnitKinds => sresp[s].kind = SuccessKind(scmd[s].kind)

C4_Witness ==
    \E s \in Conns :
        spc[s] = "Respond" /\ scmd[s].kind = "GetSize" /\ sresp[s].kind = "Size"

\* C5: a per-window command whose handle has no registry entry is answered
\* Error("Device not connected"); the step invokes no Device method and
\* leaves the registry as it was.
C5_MissNoDevice ==
    [][\A s \in Conns :
          (/\ spc[s] = "Dispatch"
           /\ scmd[s].kind \in HwndKinds
           /\ scmd[s].hwnd \notin Keys
           /\ spc'[s] # "Dispatch")
          => (/\ spc'[s] = "Respond"
              /\ IsNotConnected(sresp'[s])
              /\ devCalls' = devCalls
              /\ devices' = devices)]_vars

C5_Witness ==
    \E s \in Conns :
        /\ spc[s] = "Respond"
        /\ scmd[s].kind = "Focus"
        /\ IsNotConnected(sresp[s])
        /\ scmd[s].hwnd \notin Keys
        /\ devCalls = 0

\* C6: the handles with a registry entry are exactly the handles for which
\* a Connect or ConnectByHwnd has succeeded, and no step removes an entry's
\* handle from the registry, whatever happens to the sessions.
C6_RegistryInvariant ==
    /\ [](Keys = connectedOk)
    /\ [][Keys \subseteq HashMapKeys(devices')]_vars

C6_Witness ==
    /\ Cardinality(Keys) = 2
    /\ \A s \in Conns : spc[s] = "Closed"

\* C7: once a Window response for handle H has been written, a per-window
\* command for H resolved on any session hits the registry: its Device
\* method is invoked and it is not answered "Device not connected".
C7_AnsweredNeverMisses ==
    [][\A s \in Conns :
          (/\ spc[s] = "Dispatch"
           /\ scmd[s].kind \in HwndKinds
           /\ scmd[s].hwnd \in answered
           /\ spc'[s] # "Dispatch")
          => spc'[s] = "Device"]_vars

C7_Witness ==
    \E s \in Conns :
        /\ spc[s] = "Device"
        /\ scmd[s].hwnd \in answered
        /\ nDecoded[s] = 1

\* C8: a ConnectByHwnd naming a handle for which no window exists is
\* answered Error("Window not found: ...") and the registry holds no entry
\* for that handle.
C8_ConnectByHwndNotFound ==
    \A s \in Conns :
        (/\ spc[s] = "Respond"
         /\ scmd[s].kind = "ConnectByHwnd"
         /\ ~WindowExists(windows, scmd[s].hwnd))
        => (/\ sresp[s].kind = "Error"
            /\ sresp[s].val[1] = "Window not found: "
            /\ scmd[s].hwnd \notin Keys)

\* C9: the registry holds at most one entry per handle and no more entries
\* than handles connected, and a registration leaves exactly one entry for
\* its handle, bound to the identity it registered.
C9_RegisterIdempotent ==
    /\ [](/\ \A h \in Hwnds : Cardinality({e \in devices : e.key = h}) <= 1
          /\ Cardinality(devices) <= Cardinality(connectedOk))
    /\ [][\A s \in Conns :
            (spc[s] = "Register" /\ spc'[s] # "Register")
            => {e \in devices' : e.key = sinfo[s].hwnd}
                 = {[key |-> sinfo[s].hwnd, dev |-> NewDevice(sinfo[s])]}]_vars

C9_Witness ==
    \E s \in Conns :
        /\ spc[s] = "Respond"
        /\ sresp[s].kind = "Window"
        /\ sresp[s].val.hwnd \in answered
        /\ sresp[s].val.title = TitleB
        /\ {e \in devices : e.key = sresp[s].val.hwnd}
             = {[key |-> sresp[s].val.hwnd, dev |-> NewDevice(sresp[s].val)]}

\* a session about to lock the registry, and the handle it will access
WantsRegistry(s) ==
    \/ spc[s] = "Register"
    \/ spc[s] = "Dispatch" /\ scmd[s].kind \in HwndKinds
RegistryHandle(s) == IF spc[s] = "Register" THEN sinfo[s].hwnd ELSE scmd[s].hwnd

\* C10: while a session executes a Device method on handle A, the registry
\* lock is free for a session that accesses the registry for another
\* handle B.
C10_DeviceCallOutsideLock ==
    \A s, t \in Conns :
        (/\ s # t
         /\ spc[s] = "Device"
         /\ WantsRegistry(t)
         /\ RegistryHandle(t) # scmd[s].hwnd)
        => devLock = NoHolder

\* the first response frame a holding peer has been sent, once complete
FirstResponse(c) == SubSeq(s2c[c], 2, 1 + ParseHeader(s2c[c][1]).length)
HasResponse(c) ==
    /\ s2c[c] # <<>>
    /\ Len(s2c[c]) >= 1 + ParseHeader(s2c[c][1]).length

\* the command a session is handling fails in its collaborator or misses
ConnectFails(s) ==
    /\ spc[s] = "Dispatch"
    /\ scmd[s].kind = "Connect"
    /\ FindIndex(list_windows(windows), scmd[s].title) = 0
RegistryMiss(s) ==
    /\ spc[s] = "Dispatch"
    /\ scmd[s].kind \in HwndKinds
    /\ scmd[s].hwnd \notin Keys

Undecodable(s) ==
    /\ spc[s] = "AwaitBody"
    /\ netUp[s]
    /\ Len(c2s[s]) >= shdr[s].length
    /\ ~CommandDecodes(SubSeq(c2s[s], 1, shdr[s].length))

\* C12: a session that has the whole of an undecodable payload goes to
\* Closed with an error result in its next step, writing nothing; a session
\* leaves the writing of a response only onward or to Closed with an error
\* result and the response not counted as written; a Closed session stays
\* Closed: it reads nothing, decodes nothing and writes nothing again.
C12_DecodeOrWriteFailureCloses ==
    /\ [](\A s \in Conns : spc[s] = "Closed" => (c2s[s] = <<>> /\ scmd[s] = NoCmd))
    /\ [][\A s \in Conns :
            /\ (Undecodable(s) /\ spc'[s] # spc[s])
               => /\ spc'[s] = "Closed" /\ sres'[s] = "err"
                  /\ s2c'[s] = s2c[s]
                  /\ nDecoded'[s] = nDecoded[s] /\ nWritten'[s] = nWritten[s]
            /\ (spc[s] \in Responding /\ spc'[s] # spc[s])
               => \/ spc[s] = "Respond" /\ spc'[s] = "RespondBody"
                  \/ spc[s] = "RespondBody" /\ spc'[s] = "AwaitHeader"
                  \/ /\ spc'[s] = "Closed" /\ sres'[s] = "err"
                     /\ nWritten'[s] = nWritten[s]
            /\ spc[s] = "Closed"
               => /\ spc'[s] = "Closed" /\ sres'[s] = sres[s]
                  /\ c2s'[s] = <<>> /\ s2c'[s] = s2c[s]
                  /\ nDecoded'[s] = nDecoded[s] /\ nWritten'[s] = nWritten[s]]_vars

C12_Witness ==
    \E s \in Conns :
        /\ spc[s] = "Closed" /\ sres[s] = "err"
        /\ cst[s] = "hold"
        /\ peerSent[s] = 2
        /\ nDecoded[s] = 1 /\ nWritten[s] = 1
        /\ HasResponse(s)
        /\ Len(s2c[s]) = 1 + ParseHeader(s2c[s][1]).length

\* the peer has closed and the session has consumed everything it sent
CleanEof(s) ==
    /\ spc[s] = "AwaitHeader"
    /\ cst[s] = "closed"
    /\ netUp[s]
    /\ c2s[s] = <<>>

\* C13: a session that waits for a header when its peer has closed with
\* all of its frames consumed goes to Closed with the non-error result in
\* its next step, and every session whose peer has closed reaches Closed.
C13_CleanCloseTerminates ==
    /\ [][\A s \in Conns :
            (CleanEof(s) /\ spc'[s] # spc[s])
            => (spc'[s] = "Closed" /\ sres'[s] = "ok")]_vars
    /\ \A s \in Conns :
          (cst[s] = "closed" /\ spc[s] # "NoSession") ~> (spc[s] = "Closed")

C13_Witness ==
    \E s \in Conns :
        /\ spc[s] = "Closed" /\ sres[s] = "ok"
        /\ cst[s] = "closed" /\ netUp[s]
        /\ nDecoded[s] = 2 /\ nWritten[s] = 2

\* the stream of a session ends inside a header, or inside a body
TruncatedHeader(s) ==
    /\ spc[s] = "AwaitHeader"
    /\ cst[s] = "closed"
    /\ c2s[s] # <<>>
    /\ ~HeaderComplete(Head(c2s[s]))
TruncatedBody(s) ==
    /\ spc[s] = "AwaitBody"
    /\ cst[s] = "closed"
    /\ Len(c2s[s]) < shdr[s].length

\* C14: a session whose stream has ended after 1 to 7 bytes of a header,
\* or before the whole of a declared body, ends with the error result,
\* and the step changes no other session.
C14_ShortReadIsFatal ==
    [][\A s \in Conns :
          ((TruncatedHeader(s) \/ TruncatedBody(s)) /\ spc'[s] # spc[s])
          => /\ spc'[s] = "Closed" /\ sres'[s] = "err"
             /\ \A u \in Conns \ {s} : spc'[u] = spc[u] /\ sres'[u] = sres[u]]_vars

\* C16: no session and no call of the Client waits for a body whose header
\* declares the largest length.
C16_LengthBounded ==
    /\ \A s \in Conns : spc[s] = "AwaitBody" => shdr[s].length < HugeLength
    /\ \A t \in Tasks : tpc[t] = "readBody" => thdr[t].length < HugeLength

\* C15: a Disconnect is answered Ok; handling it changes neither the
\* registry nor the peer's end of the connection, and ends the session only
\* when the write of the Ok fails; once the Ok is written to a connected
\* peer the session is in AwaitHeader with the pending input kept, and the
\* commands after it are decoded and answered as any other.
C15_DisconnectKeepsSession ==
    /\ [](\A s \in Conns :
             (spc[s] \in Responding /\ scmd[s].kind = "Disconnect") => sresp[s] = RespOk)
    /\ [][\A s \in Conns :
            (scmd[s].kind = "Disconnect" /\ spc'[s] # spc[s])
            => /\ devices' = devices
               /\ cst'[s] = cst[s]
               /\ spc'[s] = "Closed" => (spc[s] \in Responding /\ WriteFails(s))
               /\ (spc[s] = "RespondBody" /\ ~WriteFails(s))
                  => /\ spc'[s] = "AwaitHeader"
                     /\ c2s'[s] = c2s[s]
                     /\ cst[s] = "hold" => s2c'[s] = s2c[s] \o <<"Ok">>]_vars

C15_Witness ==
    \E s \in Conns :
        /\ cst[s] = "hold"
        /\ HasResponse(s)
        /\ s2c[s][1].ghost[3] = <<"Disconnect">>
        /\ FirstResponse(s) = <<"Ok">>
        /\ nDecoded[s] = 2
        /\ spc[s] = "Respond"
        /\ scmd[s].kind = "Ping"
        /\ sresp[s] = RespPong

\* C17: the k-th header a session or a call reads is the header of the
\* k-th frame written to it; reading a header takes the 8 header bytes off
\* the stream and nothing else, and reading the body takes exactly the
\* declared number of bytes, none when the length is 0, so that what stays
\* in the stream starts with the next frame.
C17_ExactFrameConsumption ==
    /\ [](/\ \A s \in Conns :
               spc[s] = "AwaitBody" => shdr[s].ghost[2] = nDecoded[s] + 1
          /\ \A t \in Tasks :
               tpc[t] = "readBody" => thdr[t].ghost[2] = Len(rdOrder) + 1)
    /\ [][/\ \A s \in Conns :
              /\ (spc[s] = "AwaitHeader" /\ spc'[s] = "AwaitBody")
                 => /\ Len(Head(c2s[s]).bytes) = 8
                    /\ c2s'[s] = Tail(c2s[s])
              /\ (spc[s] = "AwaitBody" /\ spc'[s] = "Dispatch")
                 => /\ Len(c2s[s]) >= shdr[s].length
                    /\ c2s'[s] = SubSeq(c2s[s], shdr[s].length + 1, Len(c2s[s]))
                    /\ EncodeCommand(scmd'[s]) = SubSeq(c2s[s], 1, shdr[s].length)
          /\ \A t \in Tasks :
              /\ (tpc[t] = "readHdr" /\ tpc'[t] = "readBody")
                 => /\ Len(Head(s2c[ClientConn]).bytes) = 8
                    /\ s2c'[ClientConn] = Tail(s2c[ClientConn])
              /\ (tpc[t] = "readBody" /\ tpc'[t] = "idle" /\ tres'[t] # IoError)
                 => /\ Len(s2c[ClientConn]) >= thdr[t].length
                    /\ s2c'[ClientConn] =
                         SubSeq(s2c[ClientConn], thdr[t].length + 1, Len(s2c[ClientConn]))]_vars

C17_Witness ==
    \E t \in Tasks :
        /\ tpc[t] = "readBody"
        /\ rdOrder = << <<"srv", 1, 0>> >>
        /\ thdr[t].ghost = <<"srv", 2, 2>>
        /\ Len(s2c[ClientConn]) = 2

\* the stream st has grown by one header item of 8 bytes: the version 1
\* and then the length len, each least significant byte first
WroteHeader(before, after, len) ==
    /\ Len(after) = Len(before) + 1
    /\ SubSeq(after, 1, Len(before)) = before
    /\ LET b == after[Len(after)].bytes
       IN /\ Len(b) = 8
          /\ \A i \in 1..8 : b[i] \in 0..255
          /\ SubSeq(b, 1, 4) = <<1, 0, 0, 0>>
          /\ b[5] + 256 * b[6] + 65536 * b[7] + 16777216 * b[8] = len

\* C18: the Client writes each command, and the session each response, as
\* 8 header bytes (version 1, then the length of the encoded payload, both
\* little-endian) followed by the encoded payload and nothing else; every
\* header read has version 1, and when a body is read the stream holds
\* exactly the declared number of bytes.
C18_FrameLayout ==
    /\ [](/\ \A s \in Conns : spc[s] = "AwaitBody" => shdr[s].version = PROTOCOL_VERSION
          /\ \A t \in Tasks : tpc[t] = "readBody" => thdr[t].version = PROTOCOL_VERSION)
    /\ [][/\ \A t \in Tasks :
              /\ (tpc[t] = "writeHdr" /\ tpc'[t] = "writeBody")
                 => WroteHeader(c2s[ClientConn], c2s'[ClientConn],
                                Len(EncodeCommand(tcmd[t])))
              /\ (tpc[t] = "writeBody" /\ tpc'[t] = "readHdr")
                 => c2s'[ClientConn] = c2s[ClientConn] \o EncodeCommand(tcmd[t])
              /\ (tpc[t] = "readBody" /\ tpc'[t] = "idle" /\ tres'[t] # IoError)
                 => Len(s2c[ClientConn]) = thdr[t].length
          /\ \A s \in Conns :
              /\ (spc[s] = "Respond" /\ spc'[s] = "RespondBody" /\ cst[s] = "open")
                 => WroteHeader(s2c[s], s2c'[s], Len(EncodeResponse(sresp[s])))
              /\ (spc[s] = "RespondBody" /\ spc'[s] = "AwaitHeader" /\ cst[s] = "open")
                 => s2c'[s] = s2c[s] \o EncodeResponse(sresp[s])
              /\ (spc[s] = "AwaitBody" /\ spc'[s] = "Dispatch")
                 => Len(c2s[s]) = shdr[s].length]_vars

C18_Witness ==
    \E t \in Tasks :
        /\ tpc[t] = "readBody"
        /\ tcmd[t].kind = "GetSize"
        /\ thdr[t].version = PROTOCOL_VERSION
        /\ thdr[t].length = 3
        /\ Len(s2c[ClientConn]) = 3
        /\ s2c[ClientConn][1] = "Size"

\* C19: the Command deserialized from the serialization of a Command is
\* that Command, and the Response deserialized from the serialization of a
\* Response is that Response, field by field.
C19_RoundTrip ==
    tres["t1"] # NoResult
    => /\ scmd[ClientConn] = tcmd["t1"]
       /\ tres["t1"] = Received(sresp[ClientConn])

C19_Witness ==
    /\ tres["t1"] # NoResult
    /\ tcmd["t1"].kind = "Swipe"
    /\ tcmd["t1"].args[1] = 0 - 2147483647
    /\ scmd[ClientConn].args[4] = 0 - 2147483647
    /\ sresp[ClientConn].kind = "Windows"
    /\ Len(tres["t1"].resp.val) = 2
    /\ tres["t1"].resp.val[2].title = <<"a", "\"", "\\">>

\* the state of the session of connection s and of its two streams
SessionState(s) ==
    <<spc[s], shdr[s], scmd[s], sinfo[s], sresp[s], sres[s], c2s[s], s2c[s]>>

SessionEnds(s) == spc[s] # "Closed" /\ spc'[s] = "Closed"
AcceptFails(s) == cst[s] # "refused" /\ cst'[s] = "refused"

\* C20: every pending connection can be accepted whatever happened to the
\* others (an accept error, a session that ended cleanly or with an error);
\* a step of one session, its end included, and an accept error leave the
\* state of every other session unchanged, and a session ending or an
\* accept error leaves the registry unchanged.
C20_AcceptLoopIndependent ==
    /\ [](\A s \in Conns :
            (spc[s] = "NoSession" /\ cst[s] \notin {"idle", "refused"})
            => ENABLED Accept(s))
    /\ [][\A s \in Conns :
            /\ (spc'[s] # spc[s] \/ AcceptFails(s))
               => \A o \in Conns \ {s} : SessionState(o)' = SessionState(o)
            /\ (SessionEnds(s) \/ AcceptFails(s)) => devices' = devices]_vars

C20_Witness ==
    /\ spc["c1"] = "Closed"
    /\ sres["c1"] = "err"
    /\ devices # {}
    /\ spc["c2"] = "AwaitHeader"
    /\ HasResponse("c2")

\* the PdbError variants that carry the message of a Response::Error
DomainErrors == {"ConnectionError", "WindowNotFound", "InputError", "CaptureError",
                 "HandleError"}

\* C21: when a call returns, a received Response::Error(m) reaches the
\* caller as a domain error whose message is m, a transport failure reaches
\* it as the I/O error, and the caller gets the I/O error for nothing else.
C21_ErrorsSurfaceDistinct ==
    [][\A t \in Tasks :
        (tpc[t] # "idle" /\ tpc'[t] = "idle")
        => LET r == tres'[t]
               res == MethodResult(tcmd[t], r)
           IN /\ (r.ok /\ r.resp.kind = "Error")
                 => (~res.ok /\ res.err \in DomainErrors /\ res.msg = r.resp.val)
              /\ (r = IoError) => (~res.ok /\ res.err = "IoError")
              /\ (res.err = "IoError") => (r = IoError)]_vars

\* C22: a call writes at most one command frame (the frames written carry
\* distinct call tags and never outnumber the calls), a run makes one
\* connection attempt, and a session invokes the collaborator of a command
\* in the one step that leaves Dispatch, a position only a newly decoded
\* command enters: Device invocations never outnumber decoded commands,
\* whether they succeed or fail.
C22_NoRetry ==
    /\ [](/\ Len(wrOrder) <= calls
          /\ \A i, j \in 1..Len(wrOrder) : i # j => wrOrder[i] # wrOrder[j]
          /\ devCalls <= nDecoded["c1"] + nDecoded["c2"])
    /\ [][/\ (cli.pc = "connect" /\ cli' # cli) => cli'.pc # "connect"
          /\ \A s \in Conns :
               /\ (spc'[s] = "Dispatch" /\ spc[s] # "Dispatch")
                  => nDecoded'[s] = nDecoded[s] + 1
               /\ (spc[s] = "Dispatch" /\ SessionState(s)' # SessionState(s))
                  => spc'[s] # "Dispatch"]_vars

C22_Witness ==
    /\ cli.cmd = "click"
    /\ cli.pc = "exit"
    /\ cli.out = "InputError"
    /\ calls = 2
    /\ Len(wrOrder) = 2
    /\ devCalls = 1

\* C23: callers are served in arrival order: the command frames are written
\* in the order their calls started waiting for the lock, the callers still
\* waiting are queued in that order, and the caller holding the lock
\* arrived before every caller that waits.
C23_ArrivalOrder ==
    /\ \A i, j \in 1..Len(wrOrder) : i < j => wrOrder[i][2] < wrOrder[j][2]
    /\ \A i, j \in 1..Len(waiters) :
          i < j => tghost[waiters[i]][2] < tghost[waiters[j]][2]
    /\ streamLock # NoHolder
       => \A i \in 1..Len(waiters) : tghost[streamLock][2] < tghost[waiters[i]][2]

C23_Witness ==
    /\ streamLock # NoHolder
    /\ tpc[streamLock] = "readHdr"
    /\ Len(waiters) = 2
    /\ Len(wrOrder) = 1

\* a session waiting for bytes its peer, still connected, has not sent
ServerStalled(s) ==
    /\ netUp[s]
    /\ cst[s] # "closed"
    /\ \/ spc[s] = "AwaitHeader" /\ c2s[s] = <<>>
       \/ spc[s] = "AwaitBody" /\ Len(c2s[s]) < shdr[s].length

\* a caller waiting for bytes the server, still connected, has not sent
ClientStalled(t) ==
    /\ netUp[ClientConn]
    /\ spc[ClientConn] # "Closed"
    /\ \/ tpc[t] = "readHdr" /\ s2c[ClientConn] = <<>>
       \/ tpc[t] = "readBody" /\ Len(s2c[ClientConn]) < thdr[t].length

\* C25: a session whose peer has stopped sending can take no step, so it
\* stays in AwaitHeader or AwaitBody and never closes on its own; a caller
\* waiting for a response the server does not send can take no step and
\* holds the lock, and no caller waiting for the lock can take a step
\* either.
C25_NoTimeout ==
    /\ \A s \in Conns : ServerStalled(s) => ~ENABLED Session(s)
    /\ \A t \in Tasks :
          ClientStalled(t)
          => /\ streamLock = t
             /\ ~ENABLED SendCommand(t)
             /\ \A u \in Tasks : tpc[u] = "lock" => ~ENABLED SendCommand(u)

C25_Witness ==
    /\ spc[PeerConn] = "AwaitBody"
    /\ ServerStalled(PeerConn)
    /\ ClientStalled("t1")
    /\ tpc["t1"] = "readBody"
    /\ Len(waiters) = 2

\* C26: with frames written back to back, the k-th frame a session reads
\* is the k-th the peer wrote, a command is decoded only when every
\* command decoded before it has had its response written, and the k-th
\* response frame written answers the k-th command: it carries that
\* command's tag and is the response to the command that frame decodes to.
C26_PipelinedInOrder ==
    /\ [](\A s \in Conns :
            (cst[s] = "hold" /\ s2c[s] # <<>>) => ParseHeader(s2c[s][1]).ghost[2] = 1)
    /\ [][\A s \in Conns :
            /\ (spc[s] = "AwaitHeader" /\ spc'[s] = "AwaitBody")
               => shdr'[s].ghost[2] = nDecoded[s] + 1
            /\ (nDecoded'[s] # nDecoded[s]) => nWritten[s] = nDecoded[s]
            /\ (spc[s] = "Respond" /\ spc'[s] = "RespondBody")
               => /\ shdr[s].ghost[2] = nWritten[s] + 1
                  /\ scmd[s] = DecodeCommand(shdr[s].ghost[3])
            /\ (nWritten'[s] # nWritten[s])
               => /\ nWritten'[s] = nDecoded[s]
                  /\ shdr[s].ghost[2] = nDecoded[s]]_vars

C26_Witness ==
    /\ cst[ClientConn] = "hold"
    /\ peerSent[ClientConn] = 2
    /\ spc[ClientConn] = "RespondBody"
    /\ shdr[ClientConn].ghost[2] = 1
    /\ nDecoded[ClientConn] = 1
    /\ nWritten[ClientConn] = 0
    /\ c2s[ClientConn] # <<>>
    /\ ParseHeader(c2s[ClientConn][1]).ghost[2] = 2

\* the step in which session s completes a Connect or ConnectByHwnd with
\* Response::Window
Registers(s) ==
    /\ spc[s] = "Register"
    /\ scmd[s].kind \in {"Connect", "ConnectByHwnd"}
    /\ spc'[s] = "Respond"
    /\ sresp'[s].kind = "Window"

\* C27: a step changes the registry only if it is the step of a session
\* completing a Connect or ConnectByHwnd with Response::Window, and then
\* only the entry of that window's handle; every other step (Ping,
\* Disconnect, ListWindows, a connect that fails, a per-window command that
\* hits or misses, a Device method that succeeds or fails, a session ending)
\* leaves the entries and what they are bound to unchanged.
C27_OnlyConnectMutates ==
    [][\/ devices' = devices
       \/ \E s \in Conns :
             /\ Registers(s)
             /\ {e \in devices' : e.key # sresp'[s].val.hwnd}
                = {e \in devices : e.key # sresp'[s].val.hwnd}]_vars

C27_Witness ==
    /\ HashMapKeys(devices) = {1}
    /\ HashMapGet(devices, 1).dev = NewDevice(get_window_by_hwnd(windows, 1))
    /\ spc[ClientConn] = "Respond"
    /\ scmd[ClientConn].kind = "Click"
    /\ scmd[ClientConn].hwnd = 1
    /\ sresp[ClientConn] = RespError(InputErrorMsg)

\* the positions in which a session waits for the network
NetPositions == {"AwaitHeader", "AwaitBody", "Respond", "RespondBody"}

\* session s is about to lock the registry
AtRegistry(s) ==
    \/ spc[s] = "Register"
    \/ spc[s] = "Dispatch" /\ scmd[s].kind \in HwndKinds

\* C28: a session that reads a header or a body or writes its response
\* does not hold the registry lock, nor does one that has not started or
\* has ended; so when every other session is in such a position, a session
\* about to lock the registry can do so.
C28_NoLockAcrossNetwork ==
    \A s \in Conns :
        /\ spc[s] \in NetPositions \cup {"NoSession", "Closed"} => devLock # s
        /\ (AtRegistry(s) /\ \A o \in Conns \ {s} : spc[o] \in NetPositions)
           => ENABLED (DispatchRegister(s) \/ DispatchResolve(s))

C28_Witness ==
    /\ spc["c1"] = "RespondBody"
    /\ sresp["c1"].kind = "Window"
    /\ spc["c2"] = "Device"
    /\ devLock = "c2"

C30_LockFreeMeansDrained ==
    /\ []((streamLock = NoHolder /\ netUp[ClientConn] /\ spc[ClientConn] # "Closed")
          => Len(wrOrder) = Len(rdOrder))
    /\ [][\A t \in Tasks :
            (tpc[t] = "readBody" /\ tpc'[t] = "idle" /\ tres'[t].ok)
            => rdOrder'[Len(rdOrder')] = tghost[t]]_vars

\* C24: every command frame a run of the command-line client writes is of
\* the kind its command is named after and is the only one, and a run that
\* ends without error has written exactly one.
C24_OneFramePerCliCommand ==
    /\ []((cli.pc = "exit" /\ cli.out = "ok") => Len(wrOrder) = 1)
    /\ [][Len(wrOrder') > Len(wrOrder)
          => /\ Len(wrOrder') = 1
             /\ tcmd["t1"].kind = CliMethodKind(cli.cmd)]_vars

\* C31: the guard of the stream lock is dropped on every way out of
\* send_command: a task that is not inside an exchange never holds the lock,
\* whatever its call returned, and every caller waiting in lock().await
\* gets the lock
C31_LockReleasedOnEveryExit ==
    /\ [](\A t \in Tasks : tpc[t] \in {"idle", "lock"} => streamLock # t)
    /\ \A t \in Tasks : (tpc[t] = "lock") ~> (streamLock = t)

\* two calls have failed, one reading a response that does not decode and one
\* on the broken transport, and the caller queued behind them holds the lock
C31_Witness ==
    \E t, u, w \in Tasks :
        /\ tres[t].err = "SerializationError" /\ tpc[t] = "idle"
        /\ tres[u].err = "IoError" /\ tpc[u] = "idle"
        /\ streamLock = w /\ tghost[w][2] = MaxCalls

\* C32: every command a RemoteDevice writes carries the hwnd of the
\* WindowInfo it was built from, which a Response::Window delivered; the
\* frame goes to the Client's connection with the Client's lock held by the
\* caller; and a RemoteDevice, once built, keeps its WindowInfo
C32_DeviceKeepsHwnd ==
    [][/\ rdevs \subseteq rdevs'
       /\ \A t \in Tasks :
            (tpc[t] = "writeHdr" /\ tpc'[t] = "writeBody" /\ tcmd[t].kind \in HwndKinds)
            => /\ \E info \in rdevs : info.hwnd = tcmd[t].hwnd /\ info.hwnd \in answered
               /\ streamLock = t
               /\ Len(c2s'[ClientConn]) = Len(c2s[ClientConn]) + 1]_vars

\* two RemoteDevices exist, for the handles 1 and 2, and a command of one of
\* them is on its way
C32_Witness ==
    /\ {info.hwnd : info \in rdevs} = Hwnds
    /\ \E t \in Tasks : tcmd[t].kind \in HwndKinds /\ tpc[t] = "readHdr"

\* the whole frames of a stream, each with the tag of its header
RECURSIVE SplitFrames(_)
SplitFrames(st) ==
    IF st = <<>> THEN <<>>
    ELSE LET h == ParseHeader(st[1])
         IN <<[ghost |-> h.ghost, payload |-> SubSeq(st, 2, 1 + h.length)]>>
            \o SplitFrames(SubSeq(st, 2 + h.length, Len(st)))

\* the session is handling a frame whose payload is that of the frame it
\* answered last
RepeatsLast(s) ==
    /\ spc[s] \in {"Dispatch", "Register", "Device", "Respond"}
    /\ s2c[s] # <<>>
    /\ LET fr == SplitFrames(s2c[s]) IN fr[Len(fr)].ghost[3] = shdr[s].ghost[3]

\* C33: the version of a received header changes nothing. With a peer that
\* sends whole, decodable frames under any version, the session never ends
\* and answers every frame; a frame whose payload repeats that of the frame
\* before it leaves the registry as that frame left it and gets the same
\* response bytes, whatever the two versions are; and a call whose response
\* frame carries any version returns the response of its payload
C33_VersionIgnored ==
    /\ [](spc[PeerConn] # "Closed")
    /\ [](spc[PeerConn] = "AwaitHeader" /\ c2s[PeerConn] = <<>>
            => nWritten[PeerConn] = peerSent[PeerConn])
    /\ [](RepeatsLast(PeerConn) /\ spc[PeerConn] = "Respond"
            => LET fr == SplitFrames(s2c[PeerConn])
               IN fr[Len(fr)].payload = EncodeResponse(sresp[PeerConn]))
    /\ [][RepeatsLast(PeerConn) => devices' = devices]_vars
    /\ [](tres["t1"] \in {NoResult, Received(RespPong)})

\* the session has answered ConnectByHwnd under one version and is about to
\* answer the same command under another, and the Client has returned the
\* Pong of a frame whose version is not PROTOCOL_VERSION
C33_Witness ==
    /\ RepeatsLast(PeerConn) /\ spc[PeerConn] = "Respond"
    /\ sresp[PeerConn].kind = "Window"
    /\ LET fr == SplitFrames(s2c[PeerConn])
       IN fr[Len(fr)].ghost[4] # shdr[PeerConn].ghost[4]
    /\ shdr[PeerConn].version # PROTOCOL_VERSION
    /\ tres["t1"] = Received(RespPong)
    /\ rdOrder # <<>> /\ rdOrder[1][3] = HugeLength

\* the eight little-endian bytes of a usize
SizeBytes(n) == LimbBytes(n)

\* C34: the length field of a written header is the payload size modulo
\* 2^32, its four low-order bytes, and it is the payload size exactly when
\* the size is below 2^32; for the sizes of the frames of this model it is
\* the field HeaderBuf writes
C34_LengthFieldNarrowed ==
    (calc.fn = "header" /\ calc.pc = "done")
    => LET field == SubSeq(calc.out, 5, 8)
           below == calc.arg[3] = 0 /\ calc.arg[4] = 0
       IN /\ Len(calc.out) = 8
          /\ field = SubSeq(SizeBytes(calc.arg), 1, 4)
          /\ (field \o <<0, 0, 0, 0>> = SizeBytes(calc.arg)) <=> below
          /\ (below /\ calc.arg[2] < 32768)
             => calc.out = HeaderBuf(MessageHeader(calc.arg[1] + 65536 * calc.arg[2],
                                                   NoGhost)).bytes

\* the header of a payload of 2^32 + 1 bytes has been built: its field is 1
C34_Witness ==
    /\ calc.fn = "header" /\ calc.pc = "done"
    /\ calc.arg = <<1, 0, 1, 0>>
    /\ SubSeq(calc.out, 5, 8) = <<1, 0, 0, 0>>

\* the call of t returns in this step
Returns(t) == tpc[t] = "readBody" /\ tpc'[t] = "idle" /\ tres'[t].ok

\* C35: ping returns Ok(true) for Pong and Ok(false) for every other
\* response, Error included; every other method returns its value for one
\* kind of response only, the error of its own kind for Error, and
\* ProtocolError("Unexpected response") for the rest; and the call that
\* returned so has read its frame whole and has freed the lock
C35_ResultMapping ==
    [][\A t \in Tasks :
        Returns(t) =>
        LET k == tcmd[t].kind
            got == tres'[t].resp.kind
            res == MethodResult(tcmd[t], tres'[t])
            want == CASE k = "ListWindows" -> "Windows"
                      [] k \in {"Connect", "ConnectByHwnd"} -> "Window"
                      [] k = "Screenshot" -> "Screenshot"
                      [] k = "GetSize" -> "Size"
                      [] OTHER -> "Ok"
        IN /\ k = "Ping" => res.ok /\ (res.val = "true" <=> got = "Pong")
                            /\ res.val \in {"true", "false"}
           /\ k # "Ping" =>
                /\ res.ok <=> got = want
                /\ got \notin {want, "Error"}
                   => res.err = "ProtocolError" /\ res.msg = UnexpectedMsg
                /\ got = "Error" => res.err # "ProtocolError" /\ res.msg = tres'[t].resp.val
           /\ streamLock' = NoHolder /\ cst'[ClientConn] = "open" /\ netUp'[ClientConn]
           /\ Len(s2c'[ClientConn]) = Len(s2c[ClientConn]) - thdr[t].length]_vars

\* a method was answered with a response of another kind, and the next call
\* on the same Client has got its own response
C35_Witness ==
    /\ Len(rdOrder) = 2
    /\ rdOrder[1][3] = Len(EncodeResponse(DeviceOk("Screenshot")))
    /\ wrOrder[1] = <<"t1", 1>>
    /\ tres["t1"] = Received(RespPong)
    /\ rdevs = {}

\* the positions, in enumeration order, of the visible, titled windows whose
\* title contains t
Matches(t) ==
    {i \in 1..Len(windows) :
        /\ windows[i].visible /\ windows[i].title # <<>>
        /\ Contains(windows[i].title, t)}

\* C36: Connect(title) finds the first enumerated window whose title
\* contains the title and answers Error("Window not found: title"), with
\* the registry untouched, exactly when there is none; it then stores a
\* Device of the window found under that window's hwnd and answers
\* Response::Window with the same WindowInfo
C36_FindFirstMatch ==
    [][\A s \in Conns :
        /\ (spc[s] = "Dispatch" /\ scmd[s].kind = "Connect" /\ spc'[s] # "Dispatch")
           => LET m == Matches(scmd[s].title)
              IN IF m = {}
                 THEN /\ spc'[s] = "Respond"
                      /\ sresp'[s] = RespError(<<"Window not found: ">> \o scmd[s].title)
                      /\ devices' = devices
                 ELSE LET first == CHOOSE i \in m : \A j \in m : i <= j
                      IN /\ spc'[s] = "Register"
                         /\ sinfo'[s].hwnd = windows[first].hwnd
                         /\ sinfo'[s].title = windows[first].title
        /\ (spc[s] = "Register" /\ scmd[s].kind = "Connect" /\ spc'[s] # "Register")
           => /\ sresp'[s] = MkResp("Window", sinfo[s])
              /\ \E e \in devices' : e.key = sinfo[s].hwnd /\ e.dev.info = sinfo[s]
              /\ \A e \in devices' : e.key = sinfo[s].hwnd \/ e \in devices]_vars

\* with the first window hidden, Connect found the second and registered it
C36_Witness ==
    /\ spc[PeerConn] = "Respond" /\ scmd[PeerConn].kind = "Connect"
    /\ scmd[PeerConn].title = <<"n">>
    /\ Len(windows) = 2 /\ ~windows[1].visible
    /\ sresp[PeerConn].kind = "Window" /\ sresp[PeerConn].val.hwnd = windows[2].hwnd
    /\ HashMapContains(devices, windows[2].hwnd)

\* the step is one of the call of u
StepOf(u) == dcall'[u] # dcall[u] /\ dcall[u].pc \notin {"idle"} /\ dcall'[u].pc # dcall[u].pc

C38_SwipeWithinDuration ==
    calc.fn = "mouse_swipe" /\ calc.pc = "done"
    => /\ calc.out[1] >= 1
       /\ calc.out[1] * calc.out[2] <= calc.arg[1]

====
